---- MODULE Spec2Model ----
(***************************************************************************)
(* SecureAsk query orchestration pipeline.                                 *)
(*                                                                         *)
(* create_query (src/main.py) looks a request up in the query-result       *)
(* cache, and on a miss runs GraphRAGEngine.process_query                  *)
(* (src/core/graphrag_engine.py), which registers the query in             *)
(* active_queries, fans out one fetch per dispatched source, fans the      *)
(* results in, synthesizes citations and writes the result through the     *)
(* cache (src/db/redis_client.py).  Every await on the store or on a       *)
(* connector is a suspension point, hence a separate action.               *)
(***************************************************************************)
EXTENDS Integers, Sequences, FiniteSets, TLC

(***************************************************************************)
(* Bounds of the model.                                                    *)
(***************************************************************************)
MaxReqs == 2
MaxTicks == 2

Reqs == 1..MaxReqs

(***************************************************************************)
(* Python values.                                                          *)
(***************************************************************************)
None == "<None>"
NoResult == [none |-> TRUE]

\* core/models.py: SourceType and QueryStatus are str enums; a member is
\* equal to, and JSON-encoded as, its value.
SEC == "sec"
REDDIT == "reddit"
TIKTOK == "tiktok"
SourceType == {SEC, REDDIT, TIKTOK}

PENDING == "pending"
PROCESSING == "processing"
COMPLETED == "completed"
FAILED == "failed"
QueryStatus == {PENDING, PROCESSING, COMPLETED, FAILED}

\* TTLs in seconds, as passed by the engine and the endpoint.
SEC_TTL == 3600
REDDIT_TTL == 900
TIKTOK_TTL == 900
QUERY_TTL == 1800

\* The clock advances in steps of the shortest TTL.
TickLen == REDDIT_TTL
MaxTime == MaxTicks * TickLen

(***************************************************************************)
(* Sequence helpers.                                                       *)
(***************************************************************************)
Range(s) == {s[i] : i \in DOMAIN s}

RECURSIVE SelectIdx(_, _, _)
SelectIdx(s, keep, i) ==
    IF i > Len(s) THEN <<>>
    ELSE (IF i \in keep THEN <<s[i]>> ELSE <<>>) \o SelectIdx(s, keep, i + 1)

Take(s, n) == SubSeq(s, 1, IF Len(s) < n THEN Len(s) ELSE n)

RECURSIVE Flatten(_)
Flatten(ss) == IF ss = <<>> THEN <<>> ELSE Head(ss) \o Flatten(Tail(ss))

RECURSIVE Join(_, _)
Join(words, sep) ==
    IF words = <<>> THEN ""
    ELSE IF Len(words) = 1 THEN words[1]
    ELSE words[1] \o sep \o Join(Tail(words), sep)

(***************************************************************************)
(* Python str operations.                                                  *)
(***************************************************************************)
\* sub in s
StrContains(s, sub) ==
    \E i \in 1..(Len(s) - Len(sub) + 1) : SubSeq(s, i, i + Len(sub) - 1) = sub

\* s[:n]
StrPrefix(s, n) == SubSeq(s, 1, IF Len(s) < n THEN Len(s) ELSE n)

\* str.lower(), character by character.
LowerChar(c) ==
    CASE c = "A" -> "a" [] c = "B" -> "b" [] c = "C" -> "c" [] c = "D" -> "d"
      [] c = "E" -> "e" [] c = "F" -> "f" [] c = "G" -> "g" [] c = "H" -> "h"
      [] c = "I" -> "i" [] c = "J" -> "j" [] c = "K" -> "k" [] c = "L" -> "l"
      [] c = "M" -> "m" [] c = "N" -> "n" [] c = "O" -> "o" [] c = "P" -> "p"
      [] c = "Q" -> "q" [] c = "R" -> "r" [] c = "S" -> "s" [] c = "T" -> "t"
      [] c = "U" -> "u" [] c = "V" -> "v" [] c = "W" -> "w" [] c = "X" -> "x"
      [] c = "Y" -> "y" [] c = "Z" -> "z" [] OTHER -> c

RECURSIVE str_lower(_)
str_lower(s) ==
    IF s = "" THEN "" ELSE LowerChar(SubSeq(s, 1, 1)) \o str_lower(SubSeq(s, 2, Len(s)))

(***************************************************************************)
(* Questions.  A question is the sequence of its \w+ tokens; its text is   *)
(* the tokens joined by blanks.                                            *)
(***************************************************************************)
QApple == <<"What", "are", "Apple", "ESG", "risks">>
QRetail == <<"How", "do", "retail", "investors", "view", "AI">>
Questions == {QApple, QRetail}

QuestionText(question) == Join(question, " ")

\* str.lower() / re.IGNORECASE on a token.
lower(w) == str_lower(w)

\* ticker_patterns, in dict order: <<aliases (lower-cased), ticker>>.
ticker_patterns ==
    << <<{"aapl", "apple"}, "AAPL">>,
       <<{"msft", "microsoft"}, "MSFT">>,
       <<{"googl", "goog", "google", "alphabet"}, "GOOGL">>,
       <<{"amzn", "amazon"}, "AMZN">>,
       <<{"tsla", "tesla"}, "TSLA">>,
       <<{"meta", "facebook"}, "META">>,
       <<{"nvda", "nvidia"}, "NVDA">>,
       <<{"nflx", "netflix"}, "NFLX">>,
       <<{"crm", "salesforce"}, "CRM">>,
       <<{"orcl", "oracle"}, "ORCL">> >>

PatternMatchesExactCase(p, question) ==
    \E i \in DOMAIN question : question[i] \in ticker_patterns[p][1]

PatternMatches(p, question) ==
    \E i \in DOMAIN question : lower(question[i]) \in ticker_patterns[p][1]

\* GraphRAGEngine._extract_company_ticker: the ticker of the first pattern
\* (in dict order) that matches anywhere in the question, else None.
_extract_company_ticker(question) ==
    IF \E p \in DOMAIN ticker_patterns : PatternMatches(p, question)
    THEN LET first == CHOOSE p \in DOMAIN ticker_patterns :
                          /\ PatternMatches(p, question)
                          /\ \A q \in 1..(p - 1) : ~PatternMatches(q, question)
         IN ticker_patterns[first][2]
    ELSE None

stop_words ==
    {"what", "are", "the", "is", "how", "does", "do", "can", "will", "would", "should"}

\* GraphRAGEngine._extract_search_terms: the first 5 lower-cased tokens that
\* are no stop word and are longer than 2, joined by blanks.
_extract_search_terms_uncapped(question) ==
    LET words == [i \in DOMAIN question |-> lower(question[i])]
        keep == {i \in DOMAIN words : words[i] \notin stop_words /\ Len(words[i]) > 2}
    IN Join(SelectIdx(words, keep, 1), " ")

_extract_search_terms(question) ==
    LET words == [i \in DOMAIN question |-> lower(question[i])]
        keep == {i \in DOMAIN words : words[i] \notin stop_words /\ Len(words[i]) > 2}
        relevant_words == SelectIdx(words, keep, 1)
    IN Join(Take(relevant_words, 5), " ")

(***************************************************************************)
(* Cache keys.  md5 and hash() are taken to be injective: a digest is      *)
(* modelled by the string it digests.                                      *)
(***************************************************************************)
SourceRank(s) == CASE s = REDDIT -> 1 [] s = SEC -> 2 [] s = TIKTOK -> 3

\* sorted(sources): by the enum's str value, duplicates kept.
RECURSIVE sorted(_)
sorted(sources) ==
    IF sources = <<>> THEN <<>>
    ELSE LET m == CHOOSE i \in DOMAIN sources :
                      \A j \in DOMAIN sources :
                          \/ SourceRank(sources[i]) < SourceRank(sources[j])
                          \/ (SourceRank(sources[i]) = SourceRank(sources[j]) /\ i <= j)
         IN <<sources[m]>> \o sorted(SelectIdx(sources, DOMAIN sources \ {m}, 1))

\* main.py create_query: md5(f"{question}:{sorted(sources)}:{max_hops}").
query_hash(question, sources, max_hops) ==
    QuestionText(question) \o ":[" \o Join(sorted(sources), ", ") \o "]:" \o ToString(max_hops)

\* graphrag_engine.py process_query, line 64: sources or [SEC, REDDIT, TIKTOK].
SourcesOrDefault(sources) == IF sources = <<>> THEN <<SEC, REDDIT, TIKTOK>> ELSE sources

\* graphrag_engine.py process_query: the same digest, computed by the engine.
engine_query_hash(question, sources, max_hops) ==
    QuestionText(question) \o ":[" \o Join(sorted(sources), ", ") \o "]:" \o ToString(max_hops)

\* RedisClient.cache_query_result / get_cached_query_result.
QueryResultKey(hash) == "query_result:" \o hash

\* RedisClient.cache_external_api_response / get_cached_external_api_response.
ExternalApiKey(source, query) == "external_api:" \o source \o ":" \o query

\* The per-source cache_key of the three fetches.
FetchCacheKey(source, arg) ==
    CASE source = SEC -> "sec_filings_" \o arg \o "_10K"
      [] source = REDDIT -> "reddit_posts_" \o arg
      [] source = TIKTOK -> "tiktok_content_" \o arg

FetchTTLUniform(source) == REDDIT_TTL

FetchTTL(source) ==
    CASE source = SEC -> SEC_TTL
      [] source = REDDIT -> REDDIT_TTL
      [] source = TIKTOK -> TIKTOK_TTL

(***************************************************************************)
(* Source records and the connectors.  The orchestrator sees a connector   *)
(* as an opaque awaitable that returns a record list or raises.  A record  *)
(* keeps the fields the synthesizer reads; url is None when the upstream   *)
(* item carries a null link (TikTokConnector._format_tiktok_results copies *)
(* item.get('webVideoUrl', '') unchecked).                                 *)
(***************************************************************************)
Rec(ident, url, content) == [ident |-> ident, url |-> url, content |-> content]

SecRec1 == Rec("0000320193_0000320193-23-000106", "https://www.sec.gov/aapl-20230930.htm", "Climate Change Risks")
RedditRec1 == Rec("r1", "https://reddit.com/r/investing/1", "ESG discussion")
TikTokRec1 == Rec("t1", "https://www.tiktok.com/v/1", "ESG video")
TikTokRecNoUrl == Rec("t2", None, "video without link")

Returned(data) == [raises |-> FALSE, data |-> data]
Raised == [raises |-> TRUE, data |-> <<>>]

ConnectorOutcomes(source) ==
    CASE source = SEC -> {Raised, Returned(<<>>), Returned(<<SecRec1>>)}
      [] source = REDDIT -> {Raised, Returned(<<>>), Returned(<<RedditRec1>>)}
      [] source = TIKTOK -> {Raised, Returned(<<>>), Returned(<<TikTokRec1>>),
                             Returned(<<TikTokRecNoUrl>>)}

\* core/models.py ExternalAPIResponse; error stands for metadata["error"].
ExternalAPIResponse(source, data, error, cached) ==
    [source |-> source, data |-> data, error |-> error, cached |-> cached]

(***************************************************************************)
(* The synthesizer, GraphRAGEngine._run_graphrag_reasoning.                *)
(***************************************************************************)
SEC_CITATIONS == 5
REDDIT_CITATIONS == 5
TIKTOK_CITATIONS == 3

\* Confidence priors, in hundredths.
SEC_CONFIDENCE == 95
REDDIT_CONFIDENCE == 78
TIKTOK_CONFIDENCE == 65

DISCLAIMER == "Based on the citations provided, please refer to the source documents for specific details."

\* response.data of every response of one source, in external_data order.
SourceData(external_data, source) ==
    Flatten([i \in DOMAIN external_data |->
                IF external_data[i].source = source THEN external_data[i].data ELSE <<>>])

NodeId(source, rec) ==
    CASE source = SEC -> "sec_" \o rec.ident
      [] source = REDDIT -> "reddit_" \o rec.url
      [] source = TIKTOK -> "tiktok_" \o rec.url

Confidence(source) ==
    CASE source = SEC -> SEC_CONFIDENCE
      [] source = REDDIT -> REDDIT_CONFIDENCE
      [] source = TIKTOK -> TIKTOK_CONFIDENCE

\* core/models.py Citation(...).model_dump()
Citation(source, rec) ==
    [node_id |-> NodeId(source, rec), source |-> source, url |-> rec.url,
     confidence |-> Confidence(source)]

\* Citation declares url: str, so a None url fails validation.
CitationValid(rec) == rec.url # None

CitationsUncapped(source, data, cap) ==
    [i \in DOMAIN data |-> Citation(source, data[i])]

Citations(source, data, cap) ==
    [i \in DOMAIN Take(data, cap) |-> Citation(source, data[i])]

\* GraphRAGEngine._extract_relevant_content returns None.
_extract_relevant_content == None

CitationCapOf(source) ==
    CASE source = SEC -> SEC_CITATIONS
      [] source = REDDIT -> REDDIT_CITATIONS
      [] source = TIKTOK -> TIKTOK_CITATIONS

\* Variants: citations appended response by response; a label for every
\* response, whatever it carries.
_run_graphrag_reasoning_in_response_order(question, external_data, include_answer) ==
    LET cited == Flatten([i \in DOMAIN external_data |->
                     Take(external_data[i].data, CitationCapOf(external_data[i].source))])
    IN IF \E i \in DOMAIN cited : ~CitationValid(cited[i])
       THEN [raised |-> TRUE, answer |-> None, citations |-> <<>>, graph_path |-> <<>>]
       ELSE [raised |-> FALSE,
             answer |-> IF include_answer THEN DISCLAIMER ELSE None,
             citations |-> Flatten([i \in DOMAIN external_data |->
                               Citations(external_data[i].source, external_data[i].data,
                                         CitationCapOf(external_data[i].source))]),
             graph_path |-> <<"query_analysis">>
                             \o (IF SourceData(external_data, SEC) # <<>>
                                 THEN <<"sec_filings">> ELSE <<>>)
                             \o (IF SourceData(external_data, REDDIT) # <<>>
                                 THEN <<"reddit_discussions">> ELSE <<>>)
                             \o (IF SourceData(external_data, TIKTOK) # <<>>
                                 THEN <<"tiktok_content">> ELSE <<>>)
                             \o <<"synthesis">>]

_run_graphrag_reasoning_labels_every_response(question, external_data, include_answer) ==
    LET sec_data == SourceData(external_data, SEC)
        reddit_data == SourceData(external_data, REDDIT)
        tiktok_data == SourceData(external_data, TIKTOK)
        cited == Take(sec_data, SEC_CITATIONS) \o Take(reddit_data, REDDIT_CITATIONS)
                     \o Take(tiktok_data, TIKTOK_CITATIONS)
        has(source) == \E i \in DOMAIN external_data : external_data[i].source = source
    IN IF \E i \in DOMAIN cited : ~CitationValid(cited[i])
       THEN [raised |-> TRUE, answer |-> None, citations |-> <<>>, graph_path |-> <<>>]
       ELSE [raised |-> FALSE,
             answer |-> IF include_answer THEN DISCLAIMER ELSE None,
             citations |-> Citations(SEC, sec_data, SEC_CITATIONS)
                             \o Citations(REDDIT, reddit_data, REDDIT_CITATIONS)
                             \o Citations(TIKTOK, tiktok_data, TIKTOK_CITATIONS),
             graph_path |-> <<"query_analysis">>
                             \o (IF has(SEC) THEN <<"sec_filings">> ELSE <<>>)
                             \o (IF has(REDDIT) THEN <<"reddit_discussions">> ELSE <<>>)
                             \o (IF has(TIKTOK) THEN <<"tiktok_content">> ELSE <<>>)
                             \o <<"synthesis">>]

_run_graphrag_reasoning(question, external_data, include_answer) ==
    LET sec_data == SourceData(external_data, SEC)
        reddit_data == SourceData(external_data, REDDIT)
        tiktok_data == SourceData(external_data, TIKTOK)
        cited == Take(sec_data, SEC_CITATIONS) \o Take(reddit_data, REDDIT_CITATIONS)
                     \o Take(tiktok_data, TIKTOK_CITATIONS)
    IN IF \E i \in DOMAIN cited : ~CitationValid(cited[i])
       THEN [raised |-> TRUE, answer |-> None, citations |-> <<>>, graph_path |-> <<>>]
       ELSE [raised |-> FALSE,
             answer |-> IF include_answer
                        THEN (IF _extract_relevant_content # None
                              THEN _extract_relevant_content ELSE DISCLAIMER)
                        ELSE None,
             citations |-> Citations(SEC, sec_data, SEC_CITATIONS)
                             \o Citations(REDDIT, reddit_data, REDDIT_CITATIONS)
                             \o Citations(TIKTOK, tiktok_data, TIKTOK_CITATIONS),
             graph_path |-> <<"query_analysis">>
                             \o (IF sec_data # <<>> THEN <<"sec_filings">> ELSE <<>>)
                             \o (IF reddit_data # <<>> THEN <<"reddit_discussions">> ELSE <<>>)
                             \o (IF tiktok_data # <<>> THEN <<"tiktok_content">> ELSE <<>>)
                             \o <<"synthesis">>]

(***************************************************************************)
(* Responses and their JSON form.                                          *)
(***************************************************************************)
\* core/models.py QueryResult
QueryResult(answer, citations, graph_path, processing_time) ==
    [answer |-> answer, citations |-> citations, graph_path |-> graph_path,
     processing_time |-> processing_time]

\* core/models.py QueryResponse
QueryResponse(query_id, question, status, result, created_at, completed_at) ==
    [query_id |-> query_id, question |-> question, status |-> status, result |-> result,
     created_at |-> created_at, completed_at |-> completed_at]

\* json.dumps(..., default=str) turns a datetime into its str() form;
\* pydantic parses that form back into the same datetime.
DateStr(t) == [isoformat |-> t]
ParseDate(s) == s.isoformat

\* json.dumps(response.model_dump(), default=str)
json_dumps_response(response) ==
    [response EXCEPT !.created_at = DateStr(@), !.completed_at = DateStr(@)]

\* QueryResponse(**json.loads(cached))
parse_response_top_level_only(cached) ==
    [cached EXCEPT !.created_at = ParseDate(@), !.completed_at = ParseDate(@),
                   !.result = NoResult]

parse_response(cached) ==
    [cached EXCEPT !.created_at = ParseDate(@), !.completed_at = ParseDate(@)]

\* getattr on a pydantic model: only declared fields exist.
HasAttr(obj, name) == name \in DOMAIN obj

(***************************************************************************)
(* State.                                                                  *)
(***************************************************************************)
VARIABLES
    clientOK,        \* RedisClient.client is set (connect succeeded)
    storeUp,         \* the store answers; when down every attempt of a call fails
    now,             \* wall clock, seconds
    cache,           \* the store: key -> [value, expires]
    active_queries,  \* GraphRAGEngine.active_queries (its key set)
    nextId,          \* the uuid4 source: every draw is fresh
    pc,              \* per request: where create_query / process_query stands
    input,           \* per request: the QueryRequest
    context,         \* per request: the ProcessingContext (query_id, start_time)
    tasks,           \* per request: the fetches gathered by _fetch_external_data
    response,        \* per request: what process_query returned
    reply,           \* per request: what the caller of create_query received
    popped,          \* per request: how often the cleanup removed its entry
    call,            \* RedisClient: the get/set call in progress, attempt by attempt
    prev_call,       \* RedisClient: the call that returned before it
    snip,            \* _extract_relevant_snippet: its arguments and its return value
    extraction,      \* the question helpers and the fingerprint: arguments and results
    conn,            \* a connector call: its step, what the upstream did, its result
    reasoning,       \* _run_graphrag_reasoning: its arguments and its return value
    retrieval,       \* get_query_result: the id asked for and what was returned
    limiter          \* check_rate_limit: the window in the store and the calls in progress

vars == <<clientOK, storeUp, now, cache, active_queries, nextId, pc, input, context,
          tasks, response, reply, popped, call, prev_call, snip, extraction, conn,
          reasoning, retrieval, limiter>>

\* The variables of the query pipeline, and those of the components that are
\* also examined on their own.
pipelineVars == <<active_queries, nextId, pc, input, context, tasks, response, reply,
                  popped>>
auxVars == <<call, prev_call, snip, extraction, conn, reasoning, retrieval, limiter>>

NoCall == [api |-> "none", st |-> "idle", seq |-> 0]
NoSnippet == [st |-> "idle"]
NoExtraction == [st |-> "idle"]
NoConn == [st |-> "idle"]
NoReasoning == [st |-> "idle"]
NoRetrieval == [st |-> "idle"]
NoLimiter == [st |-> "idle"]

SourceLists == {<<SEC, REDDIT, TIKTOK>>, <<REDDIT>>, <<TIKTOK, SEC>>}
HopChoices == {2}

NoInput == [question |-> <<>>, sources |-> <<>>, max_hops |-> 0, include_answer |-> TRUE]
NoResponse == [none |-> TRUE]
NoContext == [query_id |-> 0, start_time |-> 0]
NoReply == [kind |-> "none", body |-> NoResponse]

EmptyCache == [k \in {} |-> NoResult]

\* The store is empty, or holds the raw entries that earlier requests wrote
\* for the first question.
WarmEntry(source, arg, data) ==
    [key |-> ExternalApiKey(source, FetchCacheKey(source, arg)),
     entry |-> [value |-> data, expires |-> FetchTTL(source)]]

\* The response an earlier request cached for the second question over the
\* discussion source, as cache_query_result stores it.
EarlierResponse ==
    LET result == _run_graphrag_reasoning(
                      QRetail, <<ExternalAPIResponse(REDDIT, <<RedditRec1>>, FALSE, FALSE)>>, TRUE)
    IN QueryResponse(0, QuestionText(QRetail), COMPLETED,
                     QueryResult(result.answer, result.citations, result.graph_path, 0), 0, 0)

WarmEntries ==
    {WarmEntry(SEC, _extract_company_ticker(QApple), <<SecRec1>>),
     WarmEntry(REDDIT, _extract_search_terms(QApple), <<RedditRec1>>),
     WarmEntry(TIKTOK, _extract_search_terms(QApple), <<TikTokRec1>>),
     [key |-> QueryResultKey(query_hash(QRetail, <<REDDIT>>, 2)),
      entry |-> [value |-> json_dumps_response(EarlierResponse), expires |-> QUERY_TTL]]}

WarmCache ==
    [k \in {w.key : w \in WarmEntries} |-> (CHOOSE w \in WarmEntries : w.key = k).entry]

InitialCaches == {EmptyCache, WarmCache}

(***************************************************************************)
(* The cache store adapter, RedisClient, as seen by its callers: get       *)
(* yields None and set yields False when the client is absent or the       *)
(* store stays unreachable.                                                *)
(***************************************************************************)
StoreReachable == clientOK /\ storeUp

redis_get_hit(key) == StoreReachable /\ key \in DOMAIN cache

\* What the store does on SET key value EX ex, and what time does to it.
StoreSetDropped(key, value, ex) == cache

StoreSet(key, value, ex) ==
    [k \in DOMAIN cache \cup {key} |->
        IF k = key THEN [value |-> value, expires |-> now + ex] ELSE cache[k]]

Unexpired(store, time) ==
    [k \in {j \in DOMAIN store : store[j].expires > time} |-> store[k]]

redis_set(key, value, ex) ==
    IF StoreReachable THEN StoreSet(key, value, ex) ELSE cache

\* RedisClient.get_cached_external_api_response: the cached list, or None
\* (here the empty list, which the fetches treat alike).
get_cached_external_api_response(source, query) ==
    IF redis_get_hit(ExternalApiKey(source, query))
    THEN cache[ExternalApiKey(source, query)].value
    ELSE <<>>

\* RedisClient.cache_external_api_response
cache_external_api_response(source, query, data, ttl) ==
    redis_set(ExternalApiKey(source, query), data, ttl)

\* RedisClient.get_cached_query_result
NeverHit(hash) == FALSE

cached_query_result_hit(hash) == redis_get_hit(QueryResultKey(hash))

\* RedisClient.cache_query_result
cache_query_result(hash, response_, ttl) ==
    redis_set(QueryResultKey(hash), json_dumps_response(response_), ttl)

(***************************************************************************)
(* GraphRAGEngine._fetch_external_data: dispatch and fan-in.               *)
(***************************************************************************)
Task(source, arg) ==
    [source |-> source, arg |-> arg, st |-> "read", data |-> <<>>, error |-> FALSE,
     cached |-> FALSE]

\* Lines 178-191: which sources get a task.
DispatchedWithoutTicker(source, company_ticker) == source \in {SEC, REDDIT, TIKTOK}

Dispatched(source, company_ticker) ==
    \/ source = SEC /\ company_ticker # None
    \/ source = REDDIT
    \/ source = TIKTOK

DispatchTasks(question, sources) ==
    LET company_ticker == _extract_company_ticker(question)
        search_terms == _extract_search_terms(question)
        keep == {i \in DOMAIN sources : Dispatched(sources[i], company_ticker)}
        kept == SelectIdx(sources, keep, 1)
    IN [i \in DOMAIN kept |->
           Task(kept[i], IF kept[i] = SEC THEN company_ticker ELSE search_terms)]

\* Lines 194-196: gather(..., return_exceptions=True), then keep the results
\* that are ExternalAPIResponse objects.  Every fetch returns one.
FanInAbortsOnError(ts) ==
    [raised |-> \E i \in DOMAIN ts : ts[i].error,
     external_data |-> [i \in DOMAIN ts |->
         ExternalAPIResponse(ts[i].source, ts[i].data, ts[i].error, ts[i].cached)]]

FanInResults(ts) ==
    [raised |-> FALSE,
     external_data |-> [i \in DOMAIN ts |->
         ExternalAPIResponse(ts[i].source, ts[i].data, ts[i].error, ts[i].cached)]]

\* The except branch of a fetch: an empty response that carries the error.
FetchFailedCarryingRecord(t) ==
    [t EXCEPT !.st = "done", !.data = <<Rec("error", "https://error", "")>>, !.error = TRUE,
              !.cached = FALSE]

FetchFailed(t) == [t EXCEPT !.st = "done", !.data = <<>>, !.error = TRUE, !.cached = FALSE]

\* finally: self.active_queries.pop(query_id, None)
CleanupSkipped(id) == active_queries
CleanupAll(id) == {}

Cleanup(id) == active_queries \ {id}

(***************************************************************************)
(* Initial state: the application with no request in flight.  connect()    *)
(* either succeeded or left client = None.                                 *)
(***************************************************************************)
Init ==
    /\ clientOK \in BOOLEAN
    /\ storeUp = TRUE
    /\ now = 0
    /\ cache \in InitialCaches
    /\ active_queries = {}
    /\ nextId = 1
    /\ pc = [r \in Reqs |-> "idle"]
    /\ input = [r \in Reqs |-> NoInput]
    /\ context = [r \in Reqs |-> NoContext]
    /\ tasks = [r \in Reqs |-> <<>>]
    /\ response = [r \in Reqs |-> NoResponse]
    /\ reply = [r \in Reqs |-> NoReply]
    /\ popped = [r \in Reqs |-> 0]
    /\ call = NoCall
    /\ prev_call = NoCall
    /\ snip = NoSnippet
    /\ extraction = NoExtraction
    /\ conn = NoConn
    /\ reasoning = NoReasoning
    /\ retrieval = NoRetrieval
    /\ limiter = NoLimiter

(***************************************************************************)
(* create_query, lines 176-180: a validated request has passed the rate    *)
(* limiter and is about to look the cache up.                              *)
(***************************************************************************)
Submitted(r, question, sources, max_hops, include_answer) ==
    /\ pc[r] = "idle"
    /\ input' = [input EXCEPT ![r] =
                    [question |-> question, sources |-> sources, max_hops |-> max_hops,
                     include_answer |-> include_answer]]
    /\ pc' = [pc EXCEPT ![r] = "lookup"]
    /\ UNCHANGED <<clientOK, storeUp, now, cache, active_queries, nextId, context, tasks,
                   response, reply, popped>>
    /\ UNCHANGED auxVars

\* A request that leaves include_answer at its default (models.py, line 39),
\* and one that asks for citations only.
Submit(r, question, sources, max_hops) == Submitted(r, question, sources, max_hops, TRUE)

SubmitCitationsOnly(r, question, sources, max_hops) ==
    Submitted(r, question, sources, max_hops, FALSE)

RequestHash(r) == query_hash(input[r].question, input[r].sources, input[r].max_hops)

\* create_query, lines 187-192: the cache answers and the entry is returned.
CacheHit(r) ==
    /\ pc[r] = "lookup"
    /\ cached_query_result_hit(RequestHash(r))
    /\ reply' = [reply EXCEPT ![r] =
                    [kind |-> "response",
                     body |-> parse_response(cache[QueryResultKey(RequestHash(r))].value)]]
    /\ pc' = [pc EXCEPT ![r] = "done"]
    /\ UNCHANGED <<clientOK, storeUp, now, cache, active_queries, nextId, input, context,
                   tasks, response, popped>>
    /\ UNCHANGED auxVars

\* create_query, lines 194-203, and process_query, lines 62-84 with
\* _fetch_external_data, lines 166-195: on a miss the engine draws the id,
\* registers the context and creates the fetch tasks.
CacheMiss(r) ==
    /\ pc[r] = "lookup"
    /\ ~cached_query_result_hit(RequestHash(r))
    /\ context' = [context EXCEPT ![r] = [query_id |-> nextId, start_time |-> now]]
    /\ nextId' = nextId + 1
    /\ active_queries' = active_queries \cup {nextId}
    /\ tasks' = [tasks EXCEPT ![r] =
                    DispatchTasks(input[r].question, SourcesOrDefault(input[r].sources))]
    /\ pc' = [pc EXCEPT ![r] = "fetching"]
    /\ UNCHANGED <<clientOK, storeUp, now, cache, input, response, reply, popped>>
    /\ UNCHANGED auxVars

(***************************************************************************)
(* One fetch (_fetch_sec_data, _fetch_reddit_data, _fetch_tiktok_data).    *)
(***************************************************************************)
TaskQuery(t) == FetchCacheKey(t.source, t.arg)

\* Lines 236-251: a non-empty cached list is returned as the response; on
\* None (no entry, no client, or a failed store call) and on an empty list
\* the fetch goes on to the connector.
AfterReadAbortsOnOutage(t) ==
    IF ~StoreReachable
    THEN FetchFailed(t)
    ELSE IF get_cached_external_api_response(t.source, TaskQuery(t)) # <<>>
         THEN [t EXCEPT !.st = "done", !.cached = TRUE,
                        !.data = get_cached_external_api_response(t.source, TaskQuery(t))]
         ELSE [t EXCEPT !.st = "call"]

AfterReadServingEmpty(t) ==
    IF redis_get_hit(ExternalApiKey(t.source, TaskQuery(t)))
    THEN [t EXCEPT !.st = "done", !.cached = TRUE,
                   !.data = get_cached_external_api_response(t.source, TaskQuery(t))]
    ELSE [t EXCEPT !.st = "call"]

AfterRead(t) ==
    LET cached_data == get_cached_external_api_response(t.source, TaskQuery(t))
    IN IF cached_data # <<>>
       THEN [t EXCEPT !.st = "done", !.data = cached_data, !.cached = TRUE]
       ELSE [t EXCEPT !.st = "call"]

FetchRead(r, i) ==
    /\ pc[r] = "fetching"
    /\ i \in DOMAIN tasks[r]
    /\ tasks[r][i].st = "read"
    /\ tasks' = [tasks EXCEPT ![r][i] = AfterRead(@)]
    /\ UNCHANGED <<clientOK, storeUp, now, cache, active_queries, nextId, pc, input,
                   context, response, reply, popped>>
    /\ UNCHANGED auxVars

\* Lines 253-256 and 273-280: the connector returns records or raises.
FetchCall(r, i, outcome) ==
    /\ pc[r] = "fetching"
    /\ i \in DOMAIN tasks[r]
    /\ tasks[r][i].st = "call"
    /\ outcome \in ConnectorOutcomes(tasks[r][i].source)
    /\ tasks' = [tasks EXCEPT ![r][i] =
                    IF outcome.raises
                    THEN FetchFailed(@)
                    ELSE [@ EXCEPT !.st = "write", !.data = outcome.data]]
    /\ UNCHANGED <<clientOK, storeUp, now, cache, active_queries, nextId, pc, input,
                   context, response, reply, popped>>
    /\ UNCHANGED auxVars

\* Lines 258-272: write the fresh records to the raw cache and return them.
FetchWrite(r, i) ==
    /\ pc[r] = "fetching"
    /\ i \in DOMAIN tasks[r]
    /\ tasks[r][i].st = "write"
    /\ LET t == tasks[r][i]
       IN cache' = cache_external_api_response(t.source, TaskQuery(t), t.data,
                                               FetchTTL(t.source))
    /\ tasks' = [tasks EXCEPT ![r][i].st = "done"]
    /\ UNCHANGED <<clientOK, storeUp, now, active_queries, nextId, pc, input, context,
                   response, reply, popped>>
    /\ UNCHANGED auxVars

(***************************************************************************)
(* process_query, lines 84-132: all fetches have settled; synthesize and   *)
(* build the response.  An exception takes the except branch and the       *)
(* finally clause at once.                                                 *)
(***************************************************************************)
AllSettled(r) == \A i \in DOMAIN tasks[r] : tasks[r][i].st = "done"

\* The include_answer process_query runs with: create_query passes
\* question, max_hops, sources and user_id only (main.py, lines 195-200), so
\* it is the parameter's default (line 51).
EngineIncludeAnswer(r) == TRUE

Synthesis(r) ==
    LET fan == FanInResults(tasks[r])
    IN IF fan.raised
       THEN [raised |-> TRUE, answer |-> None, citations |-> <<>>, graph_path |-> <<>>]
       ELSE _run_graphrag_reasoning(input[r].question, fan.external_data,
                                    EngineIncludeAnswer(r))

CompletedResponseStillProcessing(r, result) ==
    QueryResponse(context[r].query_id, QuestionText(input[r].question), PROCESSING,
                  QueryResult(result.answer, result.citations, result.graph_path,
                              (now - context[r].start_time) * 1000),
                  context[r].start_time, now)

FailedResponseWithEmptyResult(r) ==
    QueryResponse(context[r].query_id, QuestionText(input[r].question), FAILED,
                  QueryResult(None, <<>>, <<>>, 0), context[r].start_time, now)

CompletedResponse(r, result) ==
    QueryResponse(context[r].query_id, QuestionText(input[r].question), COMPLETED,
                  QueryResult(result.answer, result.citations, result.graph_path,
                              (now - context[r].start_time) * 1000),
                  context[r].start_time, now)

FailedResponse(r) ==
    QueryResponse(context[r].query_id, QuestionText(input[r].question), FAILED,
                  NoResult, context[r].start_time, now)

Synthesize(r) ==
    /\ pc[r] = "fetching"
    /\ AllSettled(r)
    /\ IF Synthesis(r).raised
       THEN /\ response' = [response EXCEPT ![r] = FailedResponse(r)]
            /\ active_queries' = Cleanup(context[r].query_id)
            /\ popped' = [popped EXCEPT ![r] =
                             IF context[r].query_id \in active_queries THEN @ + 1 ELSE @]
            /\ pc' = [pc EXCEPT ![r] = "endpoint_cache"]
       ELSE /\ response' = [response EXCEPT ![r] = CompletedResponse(r, Synthesis(r))]
            /\ pc' = [pc EXCEPT ![r] = "engine_cache"]
            /\ UNCHANGED <<active_queries, popped>>
    /\ UNCHANGED <<clientOK, storeUp, now, cache, nextId, input, context, tasks, reply>>
    /\ UNCHANGED auxVars

\* process_query, lines 112-120: what process_query returns after the cache
\* write.  A write that failed returned False (redis_client.py, lines 157-170)
\* or raised into the except clause of line 117, which logs a warning; the
\* response built before the write is returned either way.
AfterCacheWriteSurfacing(r, write_failed) ==
    IF write_failed THEN FailedResponse(r) ELSE response[r]

AfterCacheWriteDowngrading(r, write_failed) ==
    IF write_failed THEN [response[r] EXCEPT !.status = PROCESSING] ELSE response[r]

AfterCacheWrite(r, write_failed) == response[r]

\* process_query, lines 112-120 and 133-135: write the result through the
\* cache, return it, and pop the context.
EngineCacheWrite(r) ==
    /\ pc[r] = "engine_cache"
    /\ cache' = cache_query_result(
                    engine_query_hash(input[r].question, SourcesOrDefault(input[r].sources),
                                      input[r].max_hops),
                    response[r], QUERY_TTL)
    /\ active_queries' = Cleanup(context[r].query_id)
    /\ popped' = [popped EXCEPT ![r] =
                     IF context[r].query_id \in active_queries THEN @ + 1 ELSE @]
    /\ response' = [response EXCEPT ![r] = AfterCacheWrite(r, ~StoreReachable)]
    /\ pc' = [pc EXCEPT ![r] = "endpoint_cache"]
    /\ UNCHANGED <<clientOK, storeUp, now, nextId, input, context, tasks, reply>>
    /\ UNCHANGED auxVars

\* create_query, lines 205-239: cache the returned response, then build the
\* log call's arguments; result.citations is read off the QueryResponse.  The
\* locals of the finished call are dropped.
EndpointReply(result) ==
    IF HasAttr(result, "citations")
    THEN [kind |-> "response", body |-> result]
    ELSE [kind |-> "http_500", body |-> NoResponse]

EndpointCacheWrite(r) ==
    /\ pc[r] = "endpoint_cache"
    /\ cache' = cache_query_result(RequestHash(r), response[r], QUERY_TTL)
    /\ reply' = [reply EXCEPT ![r] = EndpointReply(response[r])]
    /\ pc' = [pc EXCEPT ![r] = "done"]
    /\ context' = [context EXCEPT ![r] = NoContext]
    /\ tasks' = [tasks EXCEPT ![r] = <<>>]
    /\ UNCHANGED <<clientOK, storeUp, now, active_queries, nextId, input, response, popped>>
    /\ UNCHANGED auxVars

(***************************************************************************)
(* Environment: time passes (entries past their TTL are gone), the store   *)
(* becomes unreachable and reachable again.                                *)
(***************************************************************************)
Tick ==
    /\ now + TickLen <= MaxTime
    /\ now' = now + TickLen
    /\ cache' = Unexpired(cache, now + TickLen)
    /\ UNCHANGED <<clientOK, storeUp, active_queries, nextId, pc, input, context, tasks,
                   response, reply, popped>>
    /\ UNCHANGED auxVars

StoreFail ==
    /\ clientOK /\ storeUp
    /\ storeUp' = FALSE
    /\ UNCHANGED <<clientOK, now, cache, active_queries, nextId, pc, input, context, tasks,
                   response, reply, popped>>
    /\ UNCHANGED auxVars

StoreRecover ==
    /\ clientOK /\ ~storeUp
    /\ storeUp' = TRUE
    /\ UNCHANGED <<clientOK, now, cache, active_queries, nextId, pc, input, context, tasks,
                   response, reply, popped>>
    /\ UNCHANGED auxVars

\* The steps of create_query / process_query, with the requests that may be
\* submitted and the inputs and connector outcomes drawn from the given sets.
Pipeline(starters, questions, sourceLists, hops, outcomes) ==
    \/ \E r \in starters, question \in questions, sources \in sourceLists, max_hops \in hops :
           Submit(r, question, sources, max_hops)
    \/ \E r \in Reqs : CacheHit(r)
    \/ \E r \in Reqs : CacheMiss(r)
    \/ \E r \in Reqs, i \in 1..3 : FetchRead(r, i)
    \/ \E r \in Reqs, i \in 1..3, outcome \in outcomes : FetchCall(r, i, outcome)
    \/ \E r \in Reqs, i \in 1..3 : FetchWrite(r, i)
    \/ \E r \in Reqs : Synthesize(r)
    \/ \E r \in Reqs : EngineCacheWrite(r)
    \/ \E r \in Reqs : EndpointCacheWrite(r)

Outage == StoreFail \/ StoreRecover

\* Request slots are taken in order.
First == {1}
AfterPrevDone == {r \in Reqs : IF r = 1 THEN TRUE ELSE pc[r - 1] = "done"}
AfterPrevStarted == {r \in Reqs : IF r = 1 THEN TRUE ELSE pc[r - 1] # "idle"}

(***************************************************************************)
(* Spec: one query through the whole pipeline, every source list and every *)
(* connector outcome, over a store that is cold or already holds entries   *)
(* earlier requests wrote; time passes and the store fails and recovers.   *)
(***************************************************************************)
AllOutcomes == UNION {ConnectorOutcomes(s) : s \in SourceType}

Next ==
    \/ Pipeline(First, Questions, SourceLists, HopChoices, AllOutcomes)
    \/ Tick
    \/ Outage

Spec == Init /\ [][Next]_vars

(***************************************************************************)
(* SeqSpec: requests submitted one after the other, each after the         *)
(* previous one was answered, over a cold store; the discussion fetch      *)
(* delivers a record (COMPLETED), the video fetch a record without url     *)
(* (FAILED); time passes and the store fails and recovers.                 *)
(***************************************************************************)
SeqSourceLists == {<<REDDIT>>, <<TIKTOK>>}
SeqOutcomes == {Returned(<<RedditRec1>>), Returned(<<TikTokRecNoUrl>>)}

ColdInit == Init /\ cache = EmptyCache

SeqNext ==
    \/ Pipeline(AfterPrevDone, {QRetail}, SeqSourceLists, HopChoices, SeqOutcomes)
    \/ Tick
    \/ Outage

SeqSpec == ColdInit /\ [][SeqNext]_vars

(***************************************************************************)
(* ConcSpec: several queries in flight at once, interleaved at every       *)
(* suspension point, over the discussion source and a cold store that      *)
(* fails and recovers.                                                     *)
(***************************************************************************)
ConcSourceLists == {<<REDDIT>>}
ConcOutcomes == {Raised, Returned(<<RedditRec1>>)}

ConcNext ==
    \/ Pipeline(AfterPrevStarted, {QRetail}, ConcSourceLists, HopChoices, ConcOutcomes)
    \/ Outage

ConcSpec == ColdInit /\ [][ConcNext]_vars

(***************************************************************************)
(* Claims.                                                                 *)
(***************************************************************************)
\* An invocation of process_query is in flight from its registration until
\* it returns to create_query.
InFlight(r) == pc[r] \in {"fetching", "engine_cache"}
HasReturned(r) == pc[r] \in {"endpoint_cache", "done"} /\ response[r] # NoResponse

\* C1: the query id of an invocation is in active_queries for as long as the
\* invocation is in flight, is absent once the invocation has returned
\* (COMPLETED or FAILED), and the cleanup removed the entry exactly once.
C1_RegisteredWhileInFlight ==
    \A r \in Reqs :
        /\ InFlight(r) => context[r].query_id \in active_queries /\ popped[r] = 0
        /\ HasReturned(r) => response[r].query_id \notin active_queries /\ popped[r] = 1

C1_Witness ==
    \E r \in Reqs : HasReturned(r) /\ response[r].status = FAILED /\ popped[r] = 1

\* C2: with invocations interleaved, the keys of active_queries are exactly
\* the ids of the invocations in flight, which are pairwise distinct; so no
\* invocation removes another's entry and the table is empty when none is
\* in flight.
C2_ActiveIsInFlight ==
    /\ active_queries = {context[r].query_id : r \in {x \in Reqs : InFlight(x)}}
    /\ \A r1, r2 \in Reqs :
           InFlight(r1) /\ InFlight(r2) /\ r1 # r2
               => context[r1].query_id # context[r2].query_id

\* Two invocations overlapped and the later one returned first.
C2_Witness ==
    \E r1, r2 \in Reqs :
        /\ HasReturned(r1) /\ InFlight(r2)
        /\ context[r2].query_id < response[r1].query_id
        /\ active_queries = {context[r2].query_id}

\* A fetch succeeded when its connector did not raise and every record it
\* returned is well formed (carries a url).
Succeeded(t) == ~t.error /\ \A k \in DOMAIN t.data : CitationValid(t.data[k])

Synthesized(r) == pc[r] \in {"engine_cache", "endpoint_cache"}

\* C3: when at least one dispatched fetch failed on its connector and all
\* the others succeeded, the others are settled with their records, the
\* citations are exactly those of the successful fetches' records, and the
\* status is COMPLETED.
C3_PartialFailureFanIn ==
    \A r \in Reqs :
        (/\ Synthesized(r)
         /\ \E i \in DOMAIN tasks[r] : tasks[r][i].error
         /\ \A i \in DOMAIN tasks[r] : tasks[r][i].error \/ Succeeded(tasks[r][i]))
        => LET ok == {i \in DOMAIN tasks[r] : ~tasks[r][i].error}
               recs(source) == Flatten([i \in DOMAIN tasks[r] |->
                                   IF i \in ok /\ tasks[r][i].source = source
                                   THEN tasks[r][i].data ELSE <<>>])
           IN /\ response[r].status = COMPLETED
              /\ response[r].result.citations =
                     Citations(SEC, recs(SEC), SEC_CITATIONS)
                         \o Citations(REDDIT, recs(REDDIT), REDDIT_CITATIONS)
                         \o Citations(TIKTOK, recs(TIKTOK), TIKTOK_CITATIONS)
              /\ \A i \in DOMAIN tasks[r] : tasks[r][i].error => tasks[r][i].data = <<>>

\* Three fetches, one failed, two delivered a record each.
C3_Witness ==
    \E r \in Reqs :
        /\ Synthesized(r)
        /\ Len(tasks[r]) = 3
        /\ Cardinality({i \in DOMAIN tasks[r] : tasks[r][i].error}) = 1
        /\ \A i \in DOMAIN tasks[r] :
               ~tasks[r][i].error => Succeeded(tasks[r][i]) /\ tasks[r][i].data # <<>>
        /\ response[r].status = COMPLETED
        /\ Len(response[r].result.citations) = 2

\* The questions of the model that name a known company.
NamesCompany(question) == question = QApple

Requested(r, source) == source \in Range(input[r].sources)
HasTask(r, source) == \E i \in DOMAIN tasks[r] : tasks[r][i].source = source

\* C4: a regulatory fetch is dispatched exactly when SEC was requested and
\* the question names a company; discussion and video fetches are dispatched
\* exactly when requested; a question naming no company with
\* sources = [reddit] dispatches the discussion fetch alone.
C4_DispatchRule ==
    \A r \in Reqs :
        pc[r] \in {"fetching", "engine_cache", "endpoint_cache"} =>
            /\ HasTask(r, SEC) <=> Requested(r, SEC) /\ NamesCompany(input[r].question)
            /\ HasTask(r, REDDIT) <=> Requested(r, REDDIT)
            /\ HasTask(r, TIKTOK) <=> Requested(r, TIKTOK)
            /\ (input[r].sources = <<REDDIT>> /\ ~NamesCompany(input[r].question))
                   => Len(tasks[r]) = 1 /\ tasks[r][1].source = REDDIT

C4_Witness ==
    \E r \in Reqs :
        /\ pc[r] = "fetching"
        /\ input[r].sources = <<REDDIT>>
        /\ ~NamesCompany(input[r].question)
        /\ Len(tasks[r]) = 1

\* The request's fingerprint has a live entry in a reachable store.
LiveEntry(r) == StoreReachable /\ QueryResultKey(RequestHash(r)) \in DOMAIN cache

\* C5: when the lookup of a submission finds a live result-cache entry under
\* the request's fingerprint, the submission ends in that step with the
\* cached response; no id is drawn, nothing is registered in active_queries,
\* no fetch is created, no response is synthesized and the cache is not
\* written.
C5_HitSkipsProcessing ==
    [][\A r \in Reqs :
           (pc[r] = "lookup" /\ LiveEntry(r) /\ pc'[r] # "lookup")
           => /\ pc'[r] = "done"
              /\ reply'[r] = [kind |-> "response",
                              body |-> parse_response(
                                           cache[QueryResultKey(RequestHash(r))].value)]
              /\ tasks'[r] = <<>>
              /\ response'[r] = NoResponse
              /\ context'[r] = NoContext
              /\ UNCHANGED <<cache, active_queries, nextId, popped>>]_vars

C5_Witness ==
    \E r \in Reqs :
        /\ pc[r] = "done"
        /\ reply[r].kind = "response"
        /\ response[r] = NoResponse
        /\ tasks[r] = <<>>
        /\ popped[r] = 0

SameRequest(r1, r2) == input[r1] = input[r2]

\* C6: a submission answered from the cache receives, unchanged, the
\* response an earlier identical submission got from process_query; with
\* the store reachable that response is stored under the fingerprint for
\* 1800 seconds, an entry stays until it expires, and a lookup that finds
\* a live entry is answered from it.
C6_SecondSubmitReturnsFirstResult ==
    /\ [](\A r2 \in Reqs :
              (pc[r2] = "done" /\ reply[r2].kind = "response")
              => \E r1 \in Reqs :
                     /\ r1 < r2
                     /\ SameRequest(r1, r2)
                     /\ response[r1] # NoResponse
                     /\ reply[r2].body = response[r1])
    /\ [][/\ \A r \in Reqs :
                 (pc[r] = "endpoint_cache" /\ pc'[r] = "done" /\ StoreReachable)
                 => /\ QueryResultKey(RequestHash(r)) \in DOMAIN cache'
                    /\ cache'[QueryResultKey(RequestHash(r))].expires = now + 1800
                    /\ parse_response(cache'[QueryResultKey(RequestHash(r))].value)
                           = response[r]
          /\ \A k \in DOMAIN cache : cache[k].expires > now' => k \in DOMAIN cache'
          /\ \A r \in Reqs :
                 (pc[r] = "lookup" /\ LiveEntry(r) /\ pc'[r] # "lookup")
                 => reply'[r].kind = "response"]_vars

\* The second submission came later, inside the TTL, and got the first
\* one's response.
C6_Witness ==
    \E r1, r2 \in Reqs :
        /\ r1 < r2
        /\ SameRequest(r1, r2)
        /\ pc[r1] = "done" /\ pc[r2] = "done"
        /\ response[r1] # NoResponse
        /\ response[r1].status = COMPLETED
        /\ now > response[r1].completed_at
        /\ reply[r2] = [kind |-> "response", body |-> response[r1]]

CitationCap(source) ==
    CASE source = SEC -> 5
      [] source = REDDIT -> 5
      [] source = TIKTOK -> 3

\* Building the citations meets a record without a url.
BadRecordCited(r) ==
    \E i \in DOMAIN tasks[r] :
        \E k \in DOMAIN tasks[r][i].data :
            k <= CitationCap(tasks[r][i].source) /\ tasks[r][i].data[k].url = None

\* C7: when synthesis raises (a cited record has no url), process_query
\* still returns to its caller, and what it returns is a response for the
\* same query with status FAILED and no result.
C7_ExceptionBecomesFailed ==
    \A r \in Reqs :
        (Synthesized(r) /\ BadRecordCited(r))
        => /\ pc[r] = "endpoint_cache"
           /\ response[r] # NoResponse
           /\ response[r].query_id = context[r].query_id
           /\ response[r].question = QuestionText(input[r].question)
           /\ response[r].status = FAILED
           /\ response[r].result = NoResult

C7_Witness ==
    \E r \in Reqs :
        /\ Synthesized(r) /\ BadRecordCited(r)
        /\ response[r].status = FAILED
        /\ \E i \in DOMAIN tasks[r] : tasks[r][i].source = SEC /\ tasks[r][i].data # <<>>

\* C8: the caller of create_query always receives a response envelope with
\* status COMPLETED or FAILED, on a cache hit and on a miss.
C8_AlwaysEnvelope ==
    \A r \in Reqs :
        pc[r] = "done"
        => /\ reply[r].kind = "response"
           /\ reply[r].body.status \in {COMPLETED, FAILED}

\* C9: a response returned by process_query has status COMPLETED or FAILED;
\* its result is absent exactly when the status is FAILED; a COMPLETED
\* response carries citations, graph_path and processing_time.
C9_TerminalResponse ==
    \A r \in Reqs :
        response[r] # NoResponse
        => /\ response[r].status \in {COMPLETED, FAILED}
           /\ response[r].result = NoResult <=> response[r].status = FAILED
           /\ response[r].status = COMPLETED
                  => /\ {"citations", "graph_path", "processing_time"}
                            \subseteq DOMAIN response[r].result
                     /\ response[r].result.processing_time >= 0
                     /\ Len(response[r].result.graph_path) >= 2

C9_Witness ==
    \E r \in Reqs :
        /\ response[r] # NoResponse
        /\ response[r].status = COMPLETED
        /\ response[r].result.citations # <<>>
        /\ response[r].result.processing_time > 0

\* C10: while the store is unreachable, a fetch that reads the raw cache
\* goes on to call its connector, and a fetch that writes the raw cache
\* returns the connector's records untouched, not marked cached or failed,
\* with the cache left as it was.
C10_RawCacheFailOpen ==
    [][\A r \in Reqs : \A i \in DOMAIN tasks[r] :
           (~StoreReachable /\ i \in DOMAIN tasks'[r] /\ tasks'[r][i] # tasks[r][i])
           => /\ tasks[r][i].st = "read"
                  => tasks'[r][i] = [tasks[r][i] EXCEPT !.st = "call"]
              /\ tasks[r][i].st = "write"
                  => /\ tasks'[r][i] = [tasks[r][i] EXCEPT !.st = "done"]
                     /\ ~tasks'[r][i].error /\ ~tasks'[r][i].cached
                     /\ cache' = cache]_vars

\* A fetch that ran entirely at the current instant returned fresh connector
\* records although the store holds an older live entry under its key: the
\* read failed and the write was skipped.
C10_Witness ==
    \E r \in Reqs : \E i \in DOMAIN tasks[r] :
        LET t == tasks[r][i]
            key == ExternalApiKey(t.source, TaskQuery(t))
        IN /\ t.st = "done" /\ ~t.cached /\ ~t.error /\ t.data # <<>>
           /\ now = context[r].start_time
           /\ pc[r] = "fetching"
           /\ key \in DOMAIN cache
           /\ cache[key].value # <<>>
           /\ cache[key].expires < now + FetchTTL(t.source)

\* The raw cache answers a fetch with a non-empty list.
RawKey(t) == ExternalApiKey(t.source, TaskQuery(t))
RawHit(t) ==
    StoreReachable /\ RawKey(t) \in DOMAIN cache /\ cache[RawKey(t)].value # <<>>

RawTTL(source) == IF source = SEC THEN 3600 ELSE 900

\* C11: a fetch starts by reading the raw cache; on a hit it ends with the
\* cached list, marked cached, without a connector call; on a miss it calls
\* the connector once, and when the connector returned, writes the records
\* under the key it read, with 3600 s for SEC and 900 s for reddit and
\* tiktok; a settled fetch does nothing more.
C11_ReadThroughRawCache ==
    [][/\ \A r \in Reqs :
              (pc[r] = "lookup" /\ pc'[r] = "fetching")
              => \A i \in DOMAIN tasks'[r] : tasks'[r][i].st = "read"
       /\ \A r \in Reqs : \A i \in DOMAIN tasks[r] :
              (i \in DOMAIN tasks'[r] /\ tasks'[r][i] # tasks[r][i])
              => LET t == tasks[r][i]
                     u == tasks'[r][i]
                 IN /\ t.st # "done"
                    /\ t.st = "read" =>
                           IF RawHit(t)
                           THEN u = [t EXCEPT !.st = "done", !.cached = TRUE,
                                              !.data = cache[RawKey(t)].value]
                           ELSE u = [t EXCEPT !.st = "call"]
                    /\ t.st = "call" =>
                           /\ u.st \in {"write", "done"}
                           /\ ~u.cached
                           /\ u.st = "done" <=> u.error
                           /\ cache' = cache
                    /\ t.st = "write" =>
                           /\ u = [t EXCEPT !.st = "done"]
                           /\ StoreReachable =>
                                  /\ DOMAIN cache' = DOMAIN cache \cup {RawKey(t)}
                                  /\ cache'[RawKey(t)] =
                                         [value |-> t.data,
                                          expires |-> now + RawTTL(t.source)]]_vars

\* One request: the SEC fetch was answered from the cache, the reddit fetch
\* missed, called its connector and wrote the records for 900 s.
C11_Witness ==
    \E r \in Reqs : \E i, j \in DOMAIN tasks[r] :
        /\ tasks[r][i].source = SEC
        /\ tasks[r][i].st = "done" /\ tasks[r][i].cached
        /\ tasks[r][j].source = REDDIT
        /\ tasks[r][j].st = "done" /\ ~tasks[r][j].cached /\ tasks[r][j].data # <<>>
        /\ RawKey(tasks[r][j]) \in DOMAIN cache
        /\ cache[RawKey(tasks[r][j])] =
               [value |-> tasks[r][j].data, expires |-> now + 900]
        /\ now > 0

(***************************************************************************)
(* RedisClient, attempt by attempt: one call of get, set or of a cache     *)
(* helper at a time, each store operation wrapped by with_retry.           *)
(***************************************************************************)
MaxCalls == 2

max_retries == 3
retry_delay == 1

ConnectionError == "ConnectionError"
TimeoutError == "TimeoutError"
ResponseError == "ResponseError"
AttemptOK == "ok"

\* What one attempt of the store operation does: it succeeds when the store
\* answers, and raises a connection error, a timeout or another redis error
\* when it does not.
AttemptOutcomes ==
    IF storeUp THEN {AttemptOK} ELSE {ConnectionError, TimeoutError, ResponseError}

\* Return values of the adapter.
RetStr(v) == [str |-> v]
RetBool(b) == [bool |-> b]
RetData(d) == [data |-> d]

\* json.dumps(data, default=str, separators=(',', ':')) on a list of strings,
\* and json.loads, its inverse on the documents the calls store.
RECURSIVE json_items(_)
json_items(data) ==
    IF data = <<>> THEN ""
    ELSE "\"" \o Head(data) \o "\""
             \o (IF Len(data) > 1 THEN "," \o json_items(Tail(data)) ELSE "")

json_dumps(data) == "[" \o json_items(data) \o "]"

JsonDocs == {<<>>, <<"v1">>, <<"v1", "v2">>}

json_loads(text) == CHOOSE d \in JsonDocs : json_dumps(d) = text

GetApis == {"get", "get_cached_query_result", "get_cached_external_api_response"}
SetApis == {"set", "cache_query_result", "cache_external_api_response"}
Apis == GetApis \cup SetApis

\* The inner function with_retry wraps: _get or _set.
FuncName(api) == IF api \in GetApis THEN "_get" ELSE "_set"

\* The redis key an api call works on.
RedisKey(api, key) ==
    CASE api \in {"get", "set"} -> key
      [] api \in {"get_cached_query_result", "cache_query_result"} -> QueryResultKey(key)
      [] OTHER -> ExternalApiKey(REDDIT, key)

\* What a setting api stores.
Serialized(api, data) ==
    IF api \in {"cache_query_result", "cache_external_api_response"}
    THEN json_dumps(data)
    ELSE data

\* Lines 29, 37 and 43: None if 'get' in func.__name__ else False
Fallback(func_name) ==
    IF StrContains(func_name, "get") THEN NoResult ELSE RetBool(FALSE)

\* Line 39: retry_delay * (2 ** attempt), attempt counted from 0.
BackoffDelayFixed(attempt) == retry_delay

BackoffDelay(attempt) == retry_delay * 2 ^ attempt

\* The public method's return value, from what the wrapped call returned:
\* get and set pass it on; the get helpers parse a non-empty string and
\* return None otherwise (lines 150-152, 177-179).
ApiReturn(api, raw) ==
    IF api \in {"get_cached_query_result", "get_cached_external_api_response"}
    THEN (IF raw = NoResult THEN NoResult
          ELSE IF raw.str = "" THEN NoResult
          ELSE RetData(json_loads(raw.str)))
    ELSE raw

Returning(c, raw) == [c EXCEPT !.st = "returned", !.result = ApiReturn(c.api, raw)]

\* Lines 30-43: the outcome of one attempt.  tries counts the attempts
\* made, so the attempt that just ran has index tries.
AfterAttemptOnlyConnectionCaught(c, outcome) ==
    LET d == [c EXCEPT !.tries = @ + 1, !.last = outcome, !.at = now]
    IN CASE outcome = AttemptOK ->
                Returning(d, IF c.api \in GetApis
                             THEN (IF c.key \in DOMAIN cache
                                   THEN RetStr(cache[c.key].value) ELSE NoResult)
                             ELSE RetBool(TRUE))
         [] outcome \in {ConnectionError, TimeoutError} ->
                IF c.tries = max_retries - 1
                THEN Returning(d, Fallback(FuncName(c.api)))
                ELSE [d EXCEPT !.st = "sleeping"]
         [] OTHER -> [d EXCEPT !.st = "raised"]

AfterAttempt(c, outcome) ==
    LET d == [c EXCEPT !.tries = @ + 1, !.last = outcome, !.at = now]
    IN CASE outcome = AttemptOK ->
                Returning(d, IF c.api \in GetApis
                             THEN (IF c.key \in DOMAIN cache
                                   THEN RetStr(cache[c.key].value) ELSE NoResult)
                             ELSE RetBool(TRUE))
         [] outcome \in {ConnectionError, TimeoutError} ->
                IF c.tries = max_retries - 1
                THEN Returning(d, Fallback(FuncName(c.api)))
                ELSE [d EXCEPT !.st = "sleeping"]
         [] OTHER -> Returning(d, Fallback(FuncName(c.api)))

\* A call begins.  Without a client the raw-response helpers return at once
\* (lines 127-128, 144-145) and with_retry returns its fallback (lines
\* 28-29); otherwise the first attempt is due.  Every set is given a TTL of
\* 2 s, which the two sleeps of a retried call outlast.
NewCall(api, key, data) ==
    [api |-> api, key |-> RedisKey(api, key),
     value |-> Serialized(api, data), ex |-> 2, seq |-> call.seq + 1,
     at |-> now, tries |-> 0, last |-> "none", slept |-> <<>>,
     st |-> "attempting", result |-> NoResult]

StartCall(api, key, data) ==
    /\ call.st \in {"idle", "returned"}
    /\ call.seq < MaxCalls
    /\ prev_call' = call
    /\ call' = IF clientOK
               THEN NewCall(api, key, data)
               ELSE Returning(NewCall(api, key, data), Fallback(FuncName(api)))
    /\ UNCHANGED <<clientOK, storeUp, now, cache, pipelineVars, snip, extraction, conn, reasoning, retrieval, limiter>>

Attempt(outcome) ==
    /\ call.st = "attempting"
    /\ outcome \in AttemptOutcomes
    /\ call' = AfterAttempt(call, outcome)
    /\ cache' = IF outcome = AttemptOK /\ call.api \in SetApis
                THEN StoreSet(call.key, call.value, call.ex)
                ELSE cache
    /\ UNCHANGED <<clientOK, storeUp, now, prev_call, pipelineVars, snip, extraction, conn, reasoning, retrieval, limiter>>

\* Line 39: await asyncio.sleep(...); the clock moves on and entries expire.
Sleep ==
    /\ call.st = "sleeping"
    /\ LET delay == BackoffDelay(call.tries - 1)
       IN /\ now' = now + delay
          /\ cache' = Unexpired(cache, now + delay)
          /\ call' = [call EXCEPT !.st = "attempting", !.slept = Append(@, delay)]
    /\ UNCHANGED <<clientOK, storeUp, prev_call, pipelineVars, snip, extraction, conn, reasoning, retrieval, limiter>>

RetryKeys == {"k1"}
RetryValues == {"v1", "v2"}

\* Arguments of a call: get and set work on strings, the helpers on lists.
CallData(api) ==
    CASE api = "set" -> RetryValues
      [] api \in {"cache_query_result", "cache_external_api_response"} ->
             {<<>>, <<"v1">>, <<"v1", "v2">>}
      [] OTHER -> {""}

RetryNext ==
    \/ \E api \in Apis, key \in RetryKeys : \E data \in CallData(api) :
           StartCall(api, key, data)
    \/ \E outcome \in {AttemptOK, ConnectionError, TimeoutError, ResponseError} :
           Attempt(outcome)
    \/ Sleep
    \/ Outage

\* The event loop resumes the coroutine: a store operation answers or
\* raises (socket_timeout), a sleep ends.
RetrySpec ==
    /\ ColdInit
    /\ [][RetryNext]_vars
    /\ WF_vars(\E outcome \in {AttemptOK, ConnectionError, TimeoutError, ResponseError} :
                   Attempt(outcome))
    /\ WF_vars(Sleep)

\* The fallback value of a call: None for the getting apis, False for the
\* setting ones.
Absent(api) == IF api \in GetApis THEN NoResult ELSE RetBool(FALSE)

\* C12: a get that the store answered, issued right after a set of the same
\* key that returned True and before that set's TTL elapsed, returns the
\* value that was set.
C12_SetThenGet ==
    (/\ call.api = "get" /\ call.st = "returned" /\ call.last = AttemptOK
     /\ prev_call.api = "set" /\ prev_call.st = "returned"
     /\ prev_call.result = RetBool(TRUE)
     /\ prev_call.key = call.key
     /\ call.at < prev_call.at + prev_call.ex)
    => call.result = RetStr(prev_call.value)

\* The get needed a second attempt, one second later, still inside the TTL.
C12_Witness ==
    /\ call.api = "get" /\ call.st = "returned" /\ call.last = AttemptOK
    /\ prev_call.api = "set" /\ prev_call.result = RetBool(TRUE)
    /\ call.tries = 2
    /\ call.at = prev_call.at + 1
    /\ call.result = RetStr(prev_call.value)

\* C13: no call of get, set or of a cache helper raises; a call made without
\* a client, or whose last attempt failed, returns None (getting apis) or
\* False (setting apis).
C13_UnavailableStore ==
    /\ call.st \in {"idle", "attempting", "sleeping", "returned"}
    /\ (call.st = "returned" /\ (~clientOK \/ call.last # AttemptOK))
           => call.result = Absent(call.api)
    /\ (call.st = "returned" /\ ~clientOK) => call.tries = 0 /\ cache = EmptyCache

\* Every attempt of a helper's get timed out or lost the connection.
C13_Witness ==
    /\ clientOK
    /\ call.api = "get_cached_query_result" /\ call.st = "returned"
    /\ call.tries = 3
    /\ call.last \in {ConnectionError, TimeoutError}
    /\ call.result = NoResult

\* C14: a call makes at most 3 attempts; it sleeps, and then tries again,
\* only after a connection or timeout error; the sleeps are 1 s, then 2 s,
\* none after the third attempt; after a third failed attempt it returns
\* None or False; and every call that began returns.
C14_BoundedRetry ==
    /\ [](call.api # "none" =>
            /\ call.tries <= 3
            /\ call.slept = SubSeq(<<1, 2>>, 1, Len(call.slept))
            /\ call.st = "attempting" => Len(call.slept) = call.tries
            /\ call.st = "sleeping" => Len(call.slept) = call.tries - 1
            /\ call.st = "returned" /\ call.tries > 0 => Len(call.slept) = call.tries - 1
            /\ (call.st = "sleeping" \/ (call.st = "attempting" /\ call.tries > 0))
                   => call.last \in {ConnectionError, TimeoutError}
            /\ call.tries = 3 => call.st = "returned"
            /\ (call.tries = 3 /\ call.last # AttemptOK) => call.result = Absent(call.api))
    /\ (call.st \in {"attempting", "sleeping"}) ~> (call.st = "returned")

C14_Witness ==
    /\ call.api = "set" /\ call.st = "returned"
    /\ call.tries = 3
    /\ call.slept = <<1, 2>>
    /\ call.last = TimeoutError
    /\ call.result = RetBool(FALSE)

(***************************************************************************)
(* The synthesized result of a request, against its fetches.               *)
(***************************************************************************)
Completed(r) == response[r] # NoResponse /\ response[r].status = COMPLETED

\* The claimed order of the kinds of source: regulatory, discussion, video.
KindRank(source) == CASE source = SEC -> 1 [] source = REDDIT -> 2 [] source = TIKTOK -> 3

\* C15: in a completed response the regulatory citations come first, then
\* the discussion citations, then the video citations, whatever the order of
\* the requested sources and of the fetches' completion.
C15_CitationOrder ==
    \A r \in Reqs :
        Completed(r) =>
            LET c == response[r].result.citations
            IN \A i \in DOMAIN c, j \in DOMAIN c :
                   i < j => KindRank(c[i].source) <= KindRank(c[j].source)

\* Video was requested before regulatory and both contributed a citation.
C15_Witness ==
    \E r \in Reqs :
        /\ Completed(r)
        /\ input[r].sources = <<TIKTOK, SEC>>
        /\ Len(response[r].result.citations) = 2
        /\ response[r].result.citations[1].source = SEC
        /\ response[r].result.citations[2].source = TIKTOK

\* A source contributed when one of its fetches settled with a record.
Contributed(r, source) ==
    \E i \in DOMAIN tasks[r] :
        tasks[r][i].source = source /\ ~tasks[r][i].error /\ tasks[r][i].data # <<>>

PathLabel(source) ==
    CASE source = SEC -> "sec_filings"
      [] source = REDDIT -> "reddit_discussions"
      [] source = TIKTOK -> "tiktok_content"

\* C16: the graph_path of a response synthesized from fetches is "query_analysis", then the
\* labels of exactly the sources that contributed a record, each once and in
\* the order sec_filings, reddit_discussions, tiktok_content, then
\* "synthesis".
C16_GraphPath ==
    \A r \in Reqs :
        (Synthesized(r) /\ Completed(r)) =>
            LET path == response[r].result.graph_path
                kinds == <<SEC, REDDIT, TIKTOK>>
                labels == SelectIdx([k \in 1..3 |-> PathLabel(kinds[k])],
                                    {k \in 1..3 : Contributed(r, kinds[k])}, 1)
            IN path = <<"query_analysis">> \o labels \o <<"synthesis">>

\* All three requested; the regulatory fetch failed, the discussion fetch
\* found nothing, the video fetch delivered.
C16_Witness ==
    \E r \in Reqs :
        /\ Synthesized(r) /\ Completed(r)
        /\ input[r].sources = <<SEC, REDDIT, TIKTOK>>
        /\ \E i \in DOMAIN tasks[r] : tasks[r][i].source = SEC /\ tasks[r][i].error
        /\ \E i \in DOMAIN tasks[r] :
               tasks[r][i].source = REDDIT /\ ~tasks[r][i].error /\ tasks[r][i].data = <<>>
        /\ response[r].result.graph_path = <<"query_analysis", "tiktok_content", "synthesis">>

(***************************************************************************)
(* GraphRAGEngine._extract_relevant_snippet, on character strings.         *)
(***************************************************************************)
MaxUnits == 3

\* str.split(sep): the pieces between the occurrences of sep, left to right.
RECURSIVE split(_, _)
split(s, sep) ==
    IF StrContains(s, sep)
    THEN LET i == CHOOSE i \in 1..(Len(s) - Len(sep) + 1) :
                      /\ SubSeq(s, i, i + Len(sep) - 1) = sep
                      /\ \A j \in 1..(i - 1) : SubSeq(s, j, j + Len(sep) - 1) # sep
         IN <<SubSeq(s, 1, i - 1)>> \o split(SubSeq(s, i + Len(sep), Len(s)), sep)
    ELSE <<s>>

PLACEHOLDER == "No content available"
ELLIPSIS == "..."

\* Lines 503-506.
important_terms ==
    <<"climate", "risk", "esg", "disclosure", "apple", "tesla", "supply chain",
      "regulatory", "environmental", "social", "governance", "10-k", "10k",
      "2024", "2023", "carbon", "emissions", "sustainability">>

\* Line 495: not content.
NotContentOnlyNone(content) == content = None

NotContent(content) == content = None \/ content = ""

\* Lines 499-510: the terms of the vocabulary the lower-cased question contains.
Keywords(question) ==
    LET question_lower == str_lower(question)
    IN SelectIdx(important_terms,
                 {i \in DOMAIN important_terms :
                      StrContains(question_lower, important_terms[i])}, 1)

\* Line 519: the number of keywords the lower-cased sentence contains.
Score(sentence, keywords) ==
    LET sentence_lower == str_lower(sentence)
    IN Cardinality({k \in DOMAIN keywords : StrContains(sentence_lower, keywords[k])})

\* Lines 515-521: the (score, sentence) pairs of positive score, in order.
RelevantSentences(sentences, keywords) ==
    LET scored == [i \in DOMAIN sentences |->
                      [score |-> Score(sentences[i], keywords), sentence |-> sentences[i]]]
    IN SelectIdx(scored, {i \in DOMAIN scored : scored[i].score > 0}, 1)

\* Line 524: list.sort(key=score, reverse=True); the sort is stable.
RECURSIVE SortByScore(_)
SortByScore(rs) ==
    IF rs = <<>> THEN <<>>
    ELSE LET m == CHOOSE i \in DOMAIN rs :
                      /\ \A j \in DOMAIN rs : rs[j].score <= rs[i].score
                      /\ \A j \in 1..(i - 1) : rs[j].score < rs[i].score
         IN <<rs[m]>> \o SortByScore(SelectIdx(rs, DOMAIN rs \ {m}, 1))

\* Lines 527-535: take sentences while they fit; stop at the first that
\* does not.
RECURSIVE SelectPartsSkipping(_, _, _, _, _)
SelectPartsSkipping(rs, i, snippet_parts, current_length, max_length) ==
    IF i > Len(rs) THEN snippet_parts
    ELSE IF current_length + Len(rs[i].sentence) <= max_length
         THEN SelectPartsSkipping(rs, i + 1, Append(snippet_parts, rs[i].sentence),
                                  current_length + Len(rs[i].sentence), max_length)
         ELSE SelectPartsSkipping(rs, i + 1, snippet_parts, current_length, max_length)

RECURSIVE SelectParts(_, _, _, _, _)
SelectParts(rs, i, snippet_parts, current_length, max_length) ==
    IF i > Len(rs) THEN snippet_parts
    ELSE IF current_length + Len(rs[i].sentence) <= max_length
         THEN SelectParts(rs, i + 1, Append(snippet_parts, rs[i].sentence),
                          current_length + Len(rs[i].sentence), max_length)
         ELSE snippet_parts

\* Lines 538-541: the joined snippet, cut when it is too long.
TruncatedUncut(snippet, max_length) ==
    IF Len(snippet) > max_length THEN snippet \o ELLIPSIS ELSE snippet

Truncated(snippet, max_length) ==
    IF Len(snippet) > max_length THEN StrPrefix(snippet, max_length) \o ELLIPSIS ELSE snippet

\* Line 544: the beginning of the raw content.
RawFallbackAlwaysEllipsis(content, max_length) == StrPrefix(content, max_length) \o ELLIPSIS

RawFallback(content, max_length) ==
    IF Len(content) > max_length THEN StrPrefix(content, max_length) \o ELLIPSIS ELSE content

_extract_relevant_snippet(content, question, max_length) ==
    IF NotContent(content) THEN PLACEHOLDER
    ELSE LET keywords == Keywords(question)
             sentences == split(content, ". ")
             relevant_sentences == SortByScore(RelevantSentences(sentences, keywords))
             snippet_parts == SelectParts(relevant_sentences, 1, <<>>, 0, max_length)
         IN IF snippet_parts # <<>>
            THEN Truncated(Join(snippet_parts, ". "), max_length)
            ELSE RawFallback(content, max_length)

(***************************************************************************)
(* SnippetSpec: one call of the extractor on a content, a question and a   *)
(* max_length drawn from bounded sets.                                     *)
(***************************************************************************)
SnippetUnits ==
    {"Apple faces climate risk", "Climate risk", "Risk", "Weather", "Carbon pricing"}

RECURSIVE UnitLists(_)
UnitLists(n) ==
    IF n = 0 THEN {<<>>}
    ELSE UnitLists(n - 1)
            \cup {Append(us, u) : us \in {l \in UnitLists(n - 1) : Len(l) = n - 1},
                                  u \in SnippetUnits}

\* src/test_local_api.py, lines 28-29 and 42.
TestContent ==
    "Apple Inc. faces several climate-related risks. Physical risks include disruption from extreme weather. Transition risks include carbon pricing. We have committed to carbon neutrality by 2030."
TestQuestion == "What climate-risk disclosures did Apple include in its 2024 10-K?"

SnippetContents == {Join(us, ". ") : us \in UnitLists(MaxUnits)} \cup {None, TestContent}
SnippetQuestions == {TestQuestion, "How is the weather", "Carbon emissions"}
SnippetMaxLengths == {0, 8, 10, 30, 500}

SnippetInit ==
    /\ clientOK = TRUE
    /\ storeUp = TRUE
    /\ now = 0
    /\ cache = EmptyCache
    /\ active_queries = {}
    /\ nextId = 1
    /\ pc = [r \in Reqs |-> "idle"]
    /\ input = [r \in Reqs |-> NoInput]
    /\ context = [r \in Reqs |-> NoContext]
    /\ tasks = [r \in Reqs |-> <<>>]
    /\ response = [r \in Reqs |-> NoResponse]
    /\ reply = [r \in Reqs |-> NoReply]
    /\ popped = [r \in Reqs |-> 0]
    /\ call = NoCall
    /\ prev_call = NoCall
    /\ extraction = NoExtraction
    /\ conn = NoConn
    /\ reasoning = NoReasoning
    /\ retrieval = NoRetrieval
    /\ limiter = NoLimiter
    /\ snip \in [st : {"called"}, content : SnippetContents, question : SnippetQuestions,
                 max_length : SnippetMaxLengths, snippet : {""}]

ExtractSnippet ==
    /\ snip.st = "called"
    /\ snip' = [snip EXCEPT !.st = "returned",
                            !.snippet = _extract_relevant_snippet(snip.content, snip.question,
                                                                  snip.max_length)]
    /\ UNCHANGED <<clientOK, storeUp, now, cache, pipelineVars, call, prev_call, extraction, conn, reasoning, retrieval, limiter>>

SnippetNext == ExtractSnippet

SnippetSpec == SnippetInit /\ [][SnippetNext]_vars

SnippetReturned == snip.st = "returned"
HasContent == snip.content # None /\ snip.content # ""

\* The units of the content, the vocabulary terms the question names, and
\* the score of each unit: the number of those terms it contains.
Units == split(snip.content, ". ")

Vocabulary ==
    LET q == str_lower(snip.question)
    IN {t \in Range(important_terms) : StrContains(q, t)}

UnitScores ==
    LET units == Units
        vocabulary == Vocabulary
    IN [i \in DOMAIN units |->
           LET u == str_lower(units[i])
           IN Cardinality({t \in vocabulary : StrContains(u, t)})]

Scoring(score) == {i \in DOMAIN score : score[i] > 0}

\* The scoring units by descending score, ties in the original order.
RankedUnits(units, score) ==
    LET scoring == Scoring(score)
        rank == [i \in scoring |->
                    1 + Cardinality({j \in scoring :
                                        \/ score[j] > score[i]
                                        \/ score[j] = score[i] /\ j < i})]
    IN [k \in 1..Cardinality(scoring) |-> units[CHOOSE i \in scoring : rank[i] = k]]

Ranked == RankedUnits(Units, UnitScores)

RECURSIVE SumLen(_, _)
SumLen(units, k) == IF k = 0 THEN 0 ELSE SumLen(units, k - 1) + Len(units[k])

\* The longest beginning of a ranking whose summed length fits.
Selected(ranked) ==
    SubSeq(ranked, 1,
           Cardinality({k \in DOMAIN ranked : SumLen(ranked, k) <= snip.max_length}))

\* A text cut to max_length characters, the ellipsis added when it was cut.
Cut(text) ==
    IF Len(text) > snip.max_length
    THEN SubSeq(text, 1, snip.max_length) \o "..."
    ELSE text

\* C17, as stated: for every content, empty included, the snippet is at most
\* max_length + 3 long.
C17_BoundForAllContent ==
    SnippetReturned => Len(snip.snippet) <= snip.max_length + 3

\* C17, amended: for non-empty content the snippet is at most max_length + 3
\* long; for empty or missing content it is the 20-character placeholder,
\* whatever max_length is.
C17_LengthBound ==
    SnippetReturned =>
        IF HasContent
        THEN Len(snip.snippet) <= snip.max_length + 3
        ELSE Len(snip.snippet) = 20

\* Two units fit by their summed length, their join does not and is cut.
C17_Witness ==
    /\ SnippetReturned
    /\ snip.content = "Risk. Risk"
    /\ snip.question = TestQuestion
    /\ snip.max_length = 8
    /\ snip.snippet = "Risk. Ri..."

\* C18: the units of positive score are ranked by descending score, ties in
\* original order; the snippet is made of the longest beginning of that
\* ranking whose summed unit length stays within max_length, joined with
\* ". " (and cut to max_length when the join is longer); units after the
\* first that does not fit are not used, so when the first ranked unit does
\* not fit nothing is selected and the raw content is used.
C18_GreedySelection ==
    (SnippetReturned /\ HasContent) =>
        LET selected == Selected(Ranked)
        IN IF selected # <<>>
           THEN snip.snippet = Cut(Join(selected, ". "))
           ELSE snip.snippet = Cut(snip.content)

\* The top unit is second in the content; the next one does not fit, and the
\* third, which would, is not tried.
C18_Witness ==
    /\ SnippetReturned
    /\ snip.content = "Risk. Apple faces climate risk. Climate risk"
    /\ snip.question = TestQuestion
    /\ snip.max_length = 30
    /\ Ranked = <<"Apple faces climate risk", "Climate risk", "Risk">>
    /\ snip.snippet = "Apple faces climate risk"

\* C19: when no unit of a non-empty content scores, the snippet is the first
\* max_length characters of the content, with the ellipsis exactly when the
\* content is longer than max_length.
C19_RawContentFallback ==
    (SnippetReturned /\ HasContent /\ Scoring(UnitScores) = {}) =>
        /\ Len(snip.content) > snip.max_length
               => snip.snippet = SubSeq(snip.content, 1, snip.max_length) \o "..."
        /\ Len(snip.content) <= snip.max_length => snip.snippet = snip.content

\* The question names no vocabulary term; the content is longer than
\* max_length.
C19_Witness ==
    /\ SnippetReturned
    /\ snip.question = "How is the weather"
    /\ Vocabulary = {}
    /\ snip.content = "Climate risk. Weather"
    /\ snip.max_length = 10
    /\ snip.snippet = "Climate ri..."

\* C20: the snippet is never the empty string; it is "No content available"
\* for empty or missing content.
C20_NeverEmpty ==
    SnippetReturned =>
        /\ snip.snippet # ""
        /\ ~HasContent => snip.snippet = "No content available"

C20_Witness ==
    /\ SnippetReturned
    /\ snip.content = ""
    /\ snip.max_length = 0
    /\ snip.snippet = "No content available"

(***************************************************************************)
(* ExtractionSpec: the question helpers and the two fingerprints, applied  *)
(* to a request drawn from bounded sets.                                   *)
(***************************************************************************)
MaxTokens == 3

ExtractionTokens == {"Apple", "AAPL", "apple", "Tesla", "Apples", "the", "AI", "risks"}

RECURSIVE TokenLists(_)
TokenLists(n) ==
    IF n = 0 THEN {<<>>}
    ELSE TokenLists(n - 1)
            \cup {Append(ts, t) : ts \in {l \in TokenLists(n - 1) : Len(l) = n - 1},
                                  t \in ExtractionTokens}

\* src/debug_reddit.py, line 45, and a question with six surviving tokens.
LongQuestions ==
    {<<"Microsoft", "ESG", "concerns">>,
     <<"What", "are", "the", "Meta", "ESG", "supply", "chain", "risks", "in", "2024">>}

ExtractionQuestions == TokenLists(MaxTokens) \cup LongQuestions
ExtractionSourceLists == {<<>>, <<SEC>>, <<TIKTOK, SEC>>, <<SEC, TIKTOK>>}
ExtractionHops == {2, 3}

ExtractionInit ==
    /\ clientOK = TRUE
    /\ storeUp = TRUE
    /\ now = 0
    /\ cache = EmptyCache
    /\ active_queries = {}
    /\ nextId = 1
    /\ pc = [r \in Reqs |-> "idle"]
    /\ input = [r \in Reqs |-> NoInput]
    /\ context = [r \in Reqs |-> NoContext]
    /\ tasks = [r \in Reqs |-> <<>>]
    /\ response = [r \in Reqs |-> NoResponse]
    /\ reply = [r \in Reqs |-> NoReply]
    /\ popped = [r \in Reqs |-> 0]
    /\ call = NoCall
    /\ prev_call = NoCall
    /\ snip = NoSnippet
    /\ conn = NoConn
    /\ reasoning = NoReasoning
    /\ retrieval = NoRetrieval
    /\ limiter = NoLimiter
    /\ extraction \in [st : {"called"}, question : ExtractionQuestions,
                       sources : ExtractionSourceLists, max_hops : ExtractionHops,
                       ticker : {None}, terms : {""}, endpoint_key : {""},
                       engine_key : {""}]

\* create_query computes its fingerprint from the request (main.py, lines
\* 182-184); process_query extracts the ticker and the search terms and
\* computes its fingerprint from the sources it worked with (lines 64, 115).
Extract ==
    /\ extraction.st = "called"
    /\ extraction' =
           [extraction EXCEPT
               !.st = "returned",
               !.ticker = _extract_company_ticker(extraction.question),
               !.terms = _extract_search_terms(extraction.question),
               !.endpoint_key = query_hash(extraction.question, extraction.sources,
                                           extraction.max_hops),
               !.engine_key = engine_query_hash(extraction.question,
                                                SourcesOrDefault(extraction.sources),
                                                extraction.max_hops)]
    /\ UNCHANGED <<clientOK, storeUp, now, cache, pipelineVars, call, prev_call, snip, conn, reasoning, retrieval, limiter>>

ExtractionNext == Extract

ExtractionSpec == ExtractionInit /\ [][ExtractionNext]_vars

Extracted == extraction.st = "returned"

\* The companies (rows of the alias table) a question names: one of its
\* tokens is, letter case aside, an alias of the row.
Named ==
    {p \in DOMAIN ticker_patterns :
        \E i \in DOMAIN extraction.question :
            str_lower(extraction.question[i]) \in ticker_patterns[p][1]}

\* C21, as stated: a question that names a company gets that company's
\* ticker, and a question that names none gets None.
C21_TickerOfEveryAlias ==
    Extracted =>
        /\ \A p \in Named : extraction.ticker = ticker_patterns[p][2]
        /\ Named = {} => extraction.ticker = None

\* C21, amended: a question that names companies gets the ticker of the one
\* that comes first in the alias table, hence that company's ticker when it
\* names one company only; a question that names none gets None.
C21_TickerOfFirstAlias ==
    Extracted =>
        /\ Named # {} =>
               extraction.ticker =
                   ticker_patterns[CHOOSE p \in Named : \A q \in Named : p <= q][2]
        /\ Named = {} => extraction.ticker = None

\* Lower-case alias, an unrelated word that contains an alias, and a second
\* company later in the table.
C21_Witness ==
    /\ Extracted
    /\ extraction.question = <<"Apples", "Tesla", "apple">>
    /\ Named = {1, 5}
    /\ extraction.ticker = "AAPL"

\* The tokens of the output.
TermTokens == IF extraction.terms = "" THEN <<>> ELSE split(extraction.terms, " ")

\* The positions of the question whose lower-cased token is no stop word and
\* is longer than 2.
Surviving ==
    {i \in DOMAIN extraction.question :
        /\ str_lower(extraction.question[i]) \notin
               {"what", "are", "the", "is", "how", "does", "do", "can", "will", "would",
                "should"}
        /\ Len(extraction.question[i]) > 2}

\* C22: the output has at most 5 tokens, none a stop word or of length 2 or
\* less, and they are the first (up to 5) surviving tokens of the lower-cased
\* question, in their order.
C22_SearchTerms ==
    Extracted =>
        LET out == TermTokens
            surviving == Surviving
            nth(k) == CHOOSE i \in surviving : Cardinality({j \in surviving : j < i}) = k - 1
        IN /\ Len(out) <= 5
           /\ Len(out) = IF Cardinality(surviving) < 5 THEN Cardinality(surviving) ELSE 5
           /\ \A k \in DOMAIN out :
                  /\ out[k] \notin stop_words
                  /\ Len(out[k]) > 2
                  /\ out[k] = str_lower(extraction.question[nth(k)])

\* Six tokens survive and the sixth is dropped.
C22_Witness ==
    /\ Extracted
    /\ extraction.question =
           <<"What", "are", "the", "Meta", "ESG", "supply", "chain", "risks", "in", "2024">>
    /\ Cardinality(Surviving) = 6
    /\ extraction.terms = "meta esg supply chain risks"

\* The orderings of a list of sources.
RECURSIVE Orderings(_)
Orderings(sources) ==
    IF sources = <<>> THEN {<<>>}
    ELSE UNION {{<<sources[i]>> \o rest :
                    rest \in Orderings(SelectIdx(sources, DOMAIN sources \ {i}, 1))} :
                i \in DOMAIN sources}

\* C30: the fingerprint of a request is the same for every ordering of its
\* sources, and the key the engine writes under is the key the endpoint
\* looks up for the request.
C30_OneFingerprint ==
    Extracted =>
        /\ \A other \in Orderings(extraction.sources) :
               query_hash(extraction.question, other, extraction.max_hops)
                   = extraction.endpoint_key
        /\ extraction.engine_key = extraction.endpoint_key

(***************************************************************************)
(* AnswerSpec: requests submitted one after the other over a cold store,   *)
(* with include_answer left at its default or set to false.                *)
(***************************************************************************)
AnswerOutcomes == {Returned(<<RedditRec1>>), Returned(<<>>)}

AnswerNext ==
    \/ Pipeline(AfterPrevDone, {QRetail}, {<<REDDIT>>}, HopChoices, AnswerOutcomes)
    \/ \E r \in AfterPrevDone : SubmitCitationsOnly(r, QRetail, <<REDDIT>>, 2)
    \/ Tick
    \/ Outage

AnswerSpec == ColdInit /\ [][AnswerNext]_vars

\* C23: a request submitted with include_answer = false gets a result whose
\* answer is None, from process_query and from the query-result cache alike.
C23_NoAnswerUnlessRequested ==
    \A r \in Reqs :
        ~input[r].include_answer =>
            /\ (response[r] # NoResponse /\ response[r].status = COMPLETED)
                   => response[r].result.answer = None
            /\ (reply[r].kind = "response" /\ reply[r].body.status = COMPLETED)
                   => reply[r].body.result.answer = None

(***************************************************************************)
(* ReasoningSpec: _run_graphrag_reasoning applied to fetch results drawn   *)
(* from bounded sets: up to MaxRecords records per response, a second      *)
(* discussion response, the responses in either order.                     *)
(***************************************************************************)
MaxRecords == 6

RecordContents == <<"ESG discussion", "", "Climate risk">>

\* The k-th record a source delivers.
RecordOf(source, k) ==
    Rec(source \o "-" \o ToString(k), "https://" \o source \o "/" \o ToString(k),
        RecordContents[(k % 3) + 1])

Records(source, from, n) == [k \in 1..n |-> RecordOf(source, from + k - 1)]

ResponseOf(source, from, n) == ExternalAPIResponse(source, Records(source, from, n), FALSE, FALSE)

Reversed(seq) == [i \in DOMAIN seq |-> seq[Len(seq) + 1 - i]]

ReasoningInputs ==
    LET lists == {<<ResponseOf(SEC, 1, a), ResponseOf(REDDIT, 1, b), ResponseOf(TIKTOK, 1, c),
                    ResponseOf(REDDIT, b + 1, d)>> :
                      a \in {0, 1, MaxRecords}, b \in 0..MaxRecords, c \in 0..MaxRecords,
                      d \in {0, 2}}
    IN lists \cup {Reversed(l) : l \in lists}

NoReasoningResult == [raised |-> FALSE, answer |-> None, citations |-> <<>>, graph_path |-> <<>>]

ReasoningInit ==
    /\ clientOK = TRUE
    /\ storeUp = TRUE
    /\ now = 0
    /\ cache = EmptyCache
    /\ active_queries = {}
    /\ nextId = 1
    /\ pc = [r \in Reqs |-> "idle"]
    /\ input = [r \in Reqs |-> NoInput]
    /\ context = [r \in Reqs |-> NoContext]
    /\ tasks = [r \in Reqs |-> <<>>]
    /\ response = [r \in Reqs |-> NoResponse]
    /\ reply = [r \in Reqs |-> NoReply]
    /\ popped = [r \in Reqs |-> 0]
    /\ call = NoCall
    /\ prev_call = NoCall
    /\ snip = NoSnippet
    /\ extraction = NoExtraction
    /\ conn = NoConn
    /\ reasoning \in [st : {"called"}, external_data : ReasoningInputs,
                      include_answer : BOOLEAN, result : {NoReasoningResult}]
    /\ retrieval = NoRetrieval
    /\ limiter = NoLimiter

Reason ==
    /\ reasoning.st = "called"
    /\ reasoning' = [reasoning EXCEPT
                        !.st = "returned",
                        !.result = _run_graphrag_reasoning(QApple, reasoning.external_data,
                                                           reasoning.include_answer)]
    /\ UNCHANGED <<clientOK, storeUp, now, cache, pipelineVars, call, prev_call, snip,
                   extraction, conn, retrieval, limiter>>

ReasoningNext == Reason

ReasoningSpec == ReasoningInit /\ [][ReasoningNext]_vars

\* The records the responses of a source carry, in response order, and the
\* citations of a source, in citation order.
RecordsFrom(source) ==
    LET data == reasoning.external_data
    IN Flatten([i \in DOMAIN data |->
                   IF data[i].source = source THEN data[i].data ELSE <<>>])

CitationsFrom(source) ==
    LET c == reasoning.result.citations
    IN SelectIdx(c, {i \in DOMAIN c : c[i].source = source}, 1)

\* C24: the citations of a source are made from its first records, in record
\* order, at most 5 for SEC and reddit and 3 for tiktok; each carries the
\* confidence of its source (0.95, 0.78, 0.65, here in hundredths), which is
\* within [0, 1], the same for every record, and higher for SEC than for
\* reddit and for reddit than for tiktok.
C24_CapsAndConfidence ==
    reasoning.st = "returned" =>
        /\ ~reasoning.result.raised
        /\ \A source \in SourceType :
               LET limit == CASE source = SEC -> 5 [] source = REDDIT -> 5 [] source = TIKTOK -> 3
                   prior == CASE source = SEC -> 95 [] source = REDDIT -> 78 [] source = TIKTOK -> 65
                   records == RecordsFrom(source)
                   cited == CitationsFrom(source)
               IN /\ Len(cited) <= limit
                  /\ Len(cited) = IF Len(records) < limit THEN Len(records) ELSE limit
                  /\ \A k \in DOMAIN cited :
                         /\ cited[k].url = records[k].url
                         /\ cited[k].confidence = prior
                         /\ cited[k].confidence \in 0..100
        /\ \A a \in Range(reasoning.result.citations), b \in Range(reasoning.result.citations) :
               KindRank(a.source) < KindRank(b.source) => a.confidence > b.confidence

\* Two discussion responses with 4 and 2 records, 6 SEC and 4 video records.
C24_Witness ==
    /\ reasoning.st = "returned"
    /\ Len(RecordsFrom(SEC)) = 6 /\ Len(CitationsFrom(SEC)) = 5
    /\ Len(RecordsFrom(REDDIT)) = 6 /\ Len(CitationsFrom(REDDIT)) = 5
    /\ Len(RecordsFrom(TIKTOK)) = 4 /\ Len(CitationsFrom(TIKTOK)) = 3
    /\ reasoning.external_data[1].source = REDDIT
    /\ Len(reasoning.external_data[1].data) = 2
    /\ CitationsFrom(REDDIT)[3].url = "https://reddit/1"

(***************************************************************************)
(* The source connectors: RedditConnector.search_posts,                    *)
(* TikTokConnector.search_content and SECConnector.search_filings, each    *)
(* followed await by await.  What an upstream answers is chosen freely at  *)
(* every request: a transport error, a refusal, or a listing.              *)
(***************************************************************************)

MaxPosts == 7                  \* the longest listing the backup search answers

subreddit_limit == 3           \* subreddits[:3]
posts_per_subreddit == 3       \* posts[:3]
backup_threshold == 5          \* len(results) < 5
max_unique_results == 10       \* len(unique_results) < 10
timeout == 30                  \* _wait_for_results(..., timeout: int = 30)
poll_sleep == 1                \* await asyncio.sleep(1)
format_limit == 10             \* raw_results[:10]

ConnQueries == {"Apple ESG", "tesla"}
ConnTickers == {"AAPL", "aapl", "TSLA", "MSFT"}

\* subreddits = subreddits or [...]: None and [] alike select the defaults.
DefaultSubreddits ==
    <<"investing", "SecurityAnalysis", "stocks", "ValueInvesting", "financialindependence">>
SubredditsOrDefault(subreddits) ==
    IF subreddits = <<>> THEN DefaultSubreddits ELSE subreddits
SubredditArgs == {<<>>, <<"investing", "stocks">>}

\* What an upstream request does.
TransportError == [error |-> TRUE, status |-> 0]
Answer(status, body) == [error |-> FALSE, status |-> status, body |-> body]

\* post.get('permalink', '')
Permalink(post) == IF "permalink" \in DOMAIN post THEN post.permalink ELSE ""

Linked(permalink) == [title |-> "post " \o permalink, permalink |-> permalink]
Unlinked == [title |-> "post"]

\* The children of a subreddit search listing.
SubredditListings ==
    { <<>>,
      <<Linked("/a")>>,
      <<Linked("/e")>>,
      <<Linked("/a"), Linked("/b"), Linked("/c"), Linked("/d")>>,
      <<Linked("/e"), Unlinked, Unlinked>> }
SubredditAnswers ==
    {TransportError, Answer(429, <<>>)} \cup {Answer(200, l) : l \in SubredditListings}

\* The data of a backup search listing: n fresh submissions, alone or after
\* two submissions the subreddit searches list as well.
Fresh(n) == [k \in 1..n |-> Linked("/q" \o ToString(k))]
PushshiftListings ==
    {Fresh(n) : n \in 0..MaxPosts} \cup {<<Linked("/a"), Linked("/e")>> \o Fresh(n) : n \in 0..MaxPosts}
PushshiftAnswers ==
    {TransportError, Answer(503, <<>>)} \cup {Answer(200, l) : l \in PushshiftListings}

RedditPost(post, subreddit) ==
    [title |-> post.title, url |-> "https://reddit.com" \o Permalink(post), subreddit |-> subreddit]

\* _search_subreddit_json: at most three posts of a 200 answer, [] otherwise.
_search_subreddit_json(answer, subreddit) ==
    IF answer.error THEN <<>>
    ELSE IF answer.status = 200
         THEN Take([k \in DOMAIN answer.body |-> RedditPost(answer.body[k], subreddit)],
                   posts_per_subreddit)
         ELSE <<>>

\* _search_pushshift: every post of a 200 answer, [] otherwise.  The posts
\* carry the subreddit the answer names, here always "stocks".
_search_pushshift(answer) ==
    IF answer.error THEN <<>>
    ELSE IF answer.status = 200
         THEN [k \in DOMAIN answer.body |-> RedditPost(answer.body[k], "stocks")]
         ELSE <<>>

\* The de-duplication loop of search_posts, from position k on.
RECURSIVE unique_results_from(_, _, _, _)
unique_results_uncapped_from(results, k, seen_urls, unique) ==
    IF k > Len(results) THEN unique
    ELSE IF results[k].url \notin seen_urls
         THEN unique_results_from(results, k + 1, seen_urls \cup {results[k].url},
                                  Append(unique, results[k]))
         ELSE unique_results_from(results, k + 1, seen_urls, unique)
unique_results_from(results, k, seen_urls, unique) ==
    IF k > Len(results) THEN unique
    ELSE IF results[k].url \notin seen_urls /\ Len(unique) < max_unique_results
         THEN unique_results_from(results, k + 1, seen_urls \cup {results[k].url},
                                  Append(unique, results[k]))
         ELSE unique_results_from(results, k + 1, seen_urls, unique)
unique_results(results) == unique_results_from(results, 1, {}, <<>>)

\* query.replace(old, new) and the slug of the fallback urls.
RECURSIVE str_replace(_, _, _)
str_replace(s, old, new) ==
    IF s = "" THEN ""
    ELSE IF SubSeq(s, 1, 1) = old
         THEN new \o str_replace(SubSeq(s, 2, Len(s)), old, new)
         ELSE SubSeq(s, 1, 1) \o str_replace(SubSeq(s, 2, Len(s)), old, new)

\* str.upper(), character by character.
Capitals ==
    {"A", "B", "C", "D", "E", "F", "G", "H", "I", "J", "K", "L", "M",
     "N", "O", "P", "Q", "R", "S", "T", "U", "V", "W", "X", "Y", "Z"}
UpperChar(c) ==
    IF \E u \in Capitals : u # c /\ LowerChar(u) = c
    THEN CHOOSE u \in Capitals : u # c /\ LowerChar(u) = c
    ELSE c
RECURSIVE str_upper(_)
str_upper(s) ==
    IF s = "" THEN "" ELSE UpperChar(SubSeq(s, 1, 1)) \o str_upper(SubSeq(s, 2, Len(s)))

\* The posts search_posts returns from its except clause.
RedditSlug(query) == str_lower(str_replace(query, " ", "-"))
RedditFallback(query) ==
    << [title |-> "Discussion: " \o query \o " latest developments",
        url |-> "https://reddit.com/r/investing/posts/12345-" \o RedditSlug(query),
        subreddit |-> "investing"],
       [title |-> query \o " ESG analysis - worth the investment?",
        url |-> "https://reddit.com/r/SecurityAnalysis/posts/67890-" \o RedditSlug(query) \o "-esg",
        subreddit |-> "SecurityAnalysis"],
       [title |-> "Risk assessment: " \o query \o " climate exposure",
        url |-> "https://reddit.com/r/stocks/posts/24680-" \o RedditSlug(query) \o "-climate",
        subreddit |-> "stocks"],
       [title |-> "Institutional perspective on " \o query \o " sustainability",
        url |-> "https://reddit.com/r/ValueInvesting/posts/13579-" \o RedditSlug(query)
                    \o "-institutional",
        subreddit |-> "ValueInvesting"],
       [title |-> query \o " quarterly earnings call - ESG highlights",
        url |-> "https://reddit.com/r/financialindependence/posts/97531-" \o RedditSlug(query)
                    \o "-earnings",
        subreddit |-> "financialindependence"] >>

\* The try block of search_posts once every lookup has answered: the unique
\* results, or the exception raised when there are none.
collect_results_allowing_empty(results) == Returned(unique_results(results))
collect_results(results) ==
    IF unique_results(results) = <<>> THEN Raised ELSE Returned(unique_results(results))

\* except Exception of search_posts.
search_posts_reraising(outcome, query) == outcome
search_posts_except(outcome, query) ==
    IF outcome.raises THEN Returned(RedditFallback(query)) ELSE outcome

\* The videos search_content returns when it falls back.
_get_fallback_data(query) ==
    << [title |-> "TikTok Financial Analysis: " \o query,
        url |-> "https://www.tiktok.com/search?q=" \o str_replace(query, " ", "%20"),
        author |-> "FinanceInfluencer"],
       [title |-> query \o " Investment Strategy on TikTok",
        url |-> "https://www.tiktok.com/search?q=" \o str_replace(query, " ", "%20") \o "%20stock",
        author |-> "StockAnalyst"] >>

\* except Exception of search_content.
search_content_reraising(outcome, query) == outcome
search_content_except(outcome, query) ==
    IF outcome.raises THEN Returned(_get_fallback_data(query)) ELSE outcome

\* except Exception of _wait_for_results.
_wait_for_results_except(outcome) ==
    IF outcome.raises THEN Returned(<<>>) ELSE outcome

\* except Exception of search_filings.
search_filings_except(outcome) ==
    IF outcome.raises THEN Returned(<<>>) ELSE outcome

\* item.get(key, '')
ItemGet(item, key) == IF key \in DOMAIN item THEN item[key] ELSE ""

\* _format_tiktok_results: the first ten items, each reduced to its fields.
_format_tiktok_results(raw_results) ==
    [k \in 1..Len(Take(raw_results, format_limit)) |->
        [title |-> StrPrefix(ItemGet(raw_results[k], "text"), 100),
         content |-> ItemGet(raw_results[k], "text"),
         url |-> ItemGet(raw_results[k], "webVideoUrl"),
         author |-> "creator"]]

RawItems(n) ==
    [k \in 1..n |-> [text |-> "video " \o ToString(k),
                     webVideoUrl |-> "https://www.tiktok.com/v/" \o ToString(k)]]
Untitled == [webVideoUrl |-> "https://www.tiktok.com/v/0"]

\* What the job platform answers: to the submission, to a status check and
\* to the request for the items of a succeeded job.
SubmitAnswers ==
    {TransportError, Answer(402, ""), Answer(201, "run-1"), Answer(201, None)}
JobStatuses == {"READY", "RUNNING", "SUCCEEDED", "FAILED", "ABORTED", "TIMED-OUT"}
StatusAnswers ==
    {TransportError, Answer(502, ""), Answer(200, None)} \cup {Answer(200, s) : s \in JobStatuses}
ItemsAnswers ==
    {TransportError, Answer(500, <<>>), Answer(200, <<>>), Answer(200, <<Untitled>>),
     Answer(200, RawItems(format_limit + 1))}

\* elif status in ['FAILED', 'ABORTED']: break
BreaksNever(status) == FALSE
Breaks(status) == status \in {"FAILED", "ABORTED"}

\* search_filings: the filings of the demonstration data set.
Filing(company, filing_type, url) ==
    [company |-> company, filing_type |-> filing_type, url |-> url]
search_filings(company_ticker, filing_type) ==
    IF str_upper(company_ticker) = "AAPL"
    THEN << Filing("AAPL", "10-K", "https://www.sec.gov/Archives/edgar/data/320193/000032019323000106/aapl-20230930.htm"),
            Filing("AAPL", "10-Q", "https://www.sec.gov/Archives/edgar/data/320193/000032019324000007/aapl-20231230.htm"),
            Filing("AAPL", "8-K", "https://www.sec.gov/Archives/edgar/data/320193/000032019324000015/aapl-20240201.htm"),
            Filing("AAPL", "DEF 14A", "https://www.sec.gov/Archives/edgar/data/320193/000119312524000123/d12345d14a.htm"),
            Filing("AAPL", "10-Q", "https://www.sec.gov/Archives/edgar/data/320193/000032019324000032/aapl-20240331.htm") >>
    ELSE IF str_upper(company_ticker) = "TSLA"
    THEN << Filing("TSLA", "10-K", "https://www.sec.gov/Archives/edgar/data/1318605/000131860524000024/tsla-20231231.htm") >>
    ELSE << Filing(company_ticker, filing_type,
                   "https://www.sec.gov/Archives/edgar/data/example/" \o str_lower(company_ticker)
                       \o "-10k.htm") >>

\* A connector call before its first step.
ConnCall(connector, query, subreddits, token) ==
    [st |-> "called", connector |-> connector, query |-> query, subreddits |-> subreddits,
     token |-> token, i |-> 0, primary |-> <<>>, backup |-> <<>>, checks |-> 0, slept |-> 0,
     status |-> "", path |-> "", result |-> <<>>]

ConnectorInit ==
    /\ clientOK = TRUE
    /\ storeUp = TRUE
    /\ now = 0
    /\ cache = EmptyCache
    /\ active_queries = {}
    /\ nextId = 1
    /\ pc = [r \in Reqs |-> "idle"]
    /\ input = [r \in Reqs |-> NoInput]
    /\ context = [r \in Reqs |-> NoContext]
    /\ tasks = [r \in Reqs |-> <<>>]
    /\ response = [r \in Reqs |-> NoResponse]
    /\ reply = [r \in Reqs |-> NoReply]
    /\ popped = [r \in Reqs |-> 0]
    /\ call = NoCall
    /\ prev_call = NoCall
    /\ snip = NoSnippet
    /\ extraction = NoExtraction
    /\ reasoning = NoReasoning
    /\ retrieval = NoRetrieval
    /\ limiter = NoLimiter
    /\ conn \in {ConnCall(REDDIT, q, s, FALSE) : q \in ConnQueries, s \in SubredditArgs}
           \cup {ConnCall(TIKTOK, q, <<>>, t) : q \in ConnQueries, t \in BOOLEAN}
           \cup {ConnCall(SEC, t, <<>>, FALSE) : t \in ConnTickers}

ConnUnchanged ==
    UNCHANGED <<clientOK, storeUp, now, cache, pipelineVars, call, prev_call, snip,
                extraction, reasoning, retrieval, limiter>>

\* The call ends: with a list, or with the exception that leaves it.
Ended(c, outcome, path) ==
    [c EXCEPT !.st = IF outcome.raises THEN "raised" ELSE "returned",
              !.result = outcome.data,
              !.path = path]

\* The end of search_posts: by its return statement or by its except clause.
SearchEnded(c, results) ==
    Ended(c, search_posts_except(collect_results(results), c.query),
          IF collect_results(results).raises THEN "except" ELSE "live")

Searched(c) == Take(SubredditsOrDefault(c.subreddits), subreddit_limit)

\* search_posts, one subreddit search: the posts join the results; after
\* the last subreddit the backup search follows when fewer than five posts
\* were found, and otherwise the call ends.
SearchSubreddit(answer) ==
    /\ conn.connector = REDDIT
    /\ conn.st = "called"
    /\ conn.i < Len(Searched(conn))
    /\ LET found == conn.primary \o _search_subreddit_json(answer, Searched(conn)[conn.i + 1])
           c == [conn EXCEPT !.i = conn.i + 1, !.primary = found]
       IN  conn' = IF c.i < Len(Searched(conn)) THEN c
                   ELSE IF Len(found) < backup_threshold THEN [c EXCEPT !.st = "backup"]
                   ELSE SearchEnded(c, found)
    /\ ConnUnchanged

\* search_posts, the backup search and the end of the call.
SearchPushshift(answer) ==
    /\ conn.connector = REDDIT
    /\ conn.st = "backup"
    /\ LET c == [conn EXCEPT !.backup = _search_pushshift(answer)]
       IN  conn' = SearchEnded(c, c.primary \o c.backup)
    /\ ConnUnchanged

\* search_content without APIFY_TOKEN.
NoToken ==
    /\ conn.connector = TIKTOK
    /\ conn.st = "called"
    /\ ~conn.token
    /\ conn' = Ended(conn, search_content_except(Returned(_get_fallback_data(conn.query)),
                                                 conn.query),
                     "no token")
    /\ ConnUnchanged

\* search_content, the submission of the job: 201 with a run id starts the
\* polling, everything else ends the call with the fallback videos.
SubmitJob(answer) ==
    /\ conn.connector = TIKTOK
    /\ conn.st = "called"
    /\ conn.token
    /\ conn' = IF answer.error
               THEN Ended(conn, search_content_except(Raised, conn.query), "submit error")
               ELSE IF answer.status # 201
               THEN Ended(conn, search_content_except(Returned(_get_fallback_data(conn.query)),
                                                      conn.query),
                          "submit refused")
               ELSE IF answer.body = None
               THEN Ended(conn, search_content_except(Raised, conn.query), "submit error")
               ELSE [conn EXCEPT !.st = "polling"]
    /\ ConnUnchanged

\* _wait_for_results ends, and search_content with what it returned.
Waited(c, outcome, path) ==
    Ended(c, search_content_except(_wait_for_results_except(outcome), c.query), path)

\* The loop of _wait_for_results goes on, or is exhausted.
NextCheck(c) ==
    IF c.checks < timeout THEN c ELSE Waited(c, Returned(<<>>), "timed out")

\* _wait_for_results, one pass of the loop: the sleep, the status check
\* and, for a succeeded job, the request for its items.
CheckStatus(answer, items) ==
    /\ conn.connector = TIKTOK
    /\ conn.st = "polling"
    /\ conn.checks < timeout
    /\ LET c == [conn EXCEPT !.slept = conn.slept + poll_sleep,
                             !.checks = conn.checks + 1,
                             !.status = IF answer.error THEN "" ELSE
                                        IF answer.status # 200 THEN "" ELSE answer.body]
       IN  conn' = IF answer.error THEN Waited(c, Raised, "poll error")
                   ELSE IF answer.status # 200 THEN NextCheck(c)
                   ELSE IF answer.body = None THEN Waited(c, Raised, "poll error")
                   ELSE IF answer.body = "SUCCEEDED"
                   THEN IF items.error THEN Waited(c, Raised, "poll error")
                        ELSE IF items.status = 200
                        THEN Waited(c, Returned(_format_tiktok_results(items.body)), "live")
                        ELSE NextCheck(c)
                   ELSE IF Breaks(answer.body) THEN Waited(c, Returned(<<>>), "job failed")
                   ELSE NextCheck(c)
    /\ ConnUnchanged

\* search_filings.
SearchFilings ==
    /\ conn.connector = SEC
    /\ conn.st = "called"
    /\ conn' = Ended(conn, search_filings_except(Returned(search_filings(conn.query, "10-K"))),
                     "live")
    /\ ConnUnchanged

\* One pass of the polling loop, whatever the job platform answers.
Poll ==
    \E answer \in StatusAnswers :
        \E items \in IF answer = Answer(200, "SUCCEEDED") THEN ItemsAnswers ELSE {TransportError} :
            CheckStatus(answer, items)

ConnectorNext ==
    \/ \E answer \in SubredditAnswers : SearchSubreddit(answer)
    \/ \E answer \in PushshiftAnswers : SearchPushshift(answer)
    \/ NoToken
    \/ \E answer \in SubmitAnswers : SubmitJob(answer)
    \/ Poll
    \/ SearchFilings

\* The event loop resumes search_content: a request answers or raises, a
\* sleep ends.
ConnectorSpec ==
    /\ ConnectorInit
    /\ [][ConnectorNext]_vars
    /\ WF_vars(NoToken)
    /\ WF_vars(\E answer \in SubmitAnswers : SubmitJob(answer))
    /\ WF_vars(Poll)


ConnReturned(connector) == conn.connector = connector /\ conn.st = "returned"

\* C25: no call of search_filings, search_posts or search_content ends with
\* an exception: whatever fails inside it, the call returns a list.
C25_NoExceptionEscapes ==
    /\ conn.st # "raised"
    /\ conn.path \in {"except", "submit error", "poll error"} => conn.st = "returned"

C25_Witness ==
    /\ ConnReturned(TIKTOK)
    /\ conn.path = "submit error"
    /\ Len(conn.result) = 2

\* The posts the lookups of a search_posts call collected, primary results
\* before backup results.
Collected == conn.primary \o conn.backup

\* C26: search_posts never returns an empty list, and when its lookups
\* collected no post at all it returns the fallback posts of the query.
C26_FallbackWhenEmpty ==
    ConnReturned(REDDIT) =>
        /\ conn.result # <<>>
        /\ Collected = <<>> => conn.result = RedditFallback(conn.query)

C26_Witness ==
    /\ ConnReturned(REDDIT)
    /\ conn.subreddits = <<"investing", "stocks">>
    /\ Collected = <<>>
    /\ Len(conn.result) = 5
    /\ conn.result[3].url = "https://reddit.com/r/stocks/posts/24680-apple-esg-climate"

\* C27: the status polling of the video connector is bounded: at most 30
\* checks, one second of sleep before each, none after the job reported
\* FAILED or ABORTED, and the call returns whatever the job does.
C27_BoundedPolling ==
    /\ [](conn.connector = TIKTOK =>
            /\ conn.checks <= 30
            /\ conn.slept = conn.checks
            /\ conn.status \in {"FAILED", "ABORTED"} => conn.st = "returned")
    /\ [][conn'.checks # conn.checks =>
            conn'.checks = conn.checks + 1 /\ conn'.slept = conn.slept + 1]_vars
    /\ [](conn.connector = TIKTOK => <>(conn.st = "returned"))

C27_Witness ==
    /\ ConnReturned(TIKTOK)
    /\ conn.checks = 30
    /\ conn.status = "RUNNING"
    /\ conn.path = "timed out"

\* C28: a search_content call whose job reported FAILED or ABORTED, or whose
\* polling was exhausted, returns the fallback videos of the query.
C28_FallbackOnFailure ==
    (ConnReturned(TIKTOK) /\ conn.path \in {"job failed", "timed out"}) =>
        conn.result = _get_fallback_data(conn.query)

\* The positions of Collected holding the first occurrence of a url, and
\* the n-th of them.
FirstOccurrences ==
    {k \in DOMAIN Collected : \A j \in 1..(k - 1) : Collected[j].url # Collected[k].url}
NthFirst(n) ==
    CHOOSE k \in FirstOccurrences : Cardinality({j \in FirstOccurrences : j <= k}) = n

\* C29: the posts search_posts returns from its lookups have pairwise
\* distinct urls, are at most 10, and are the first occurrences of the urls
\* of the collected posts, in the order they were collected.
C29_DedupeAndCap ==
    (ConnReturned(REDDIT) /\ conn.path = "live") =>
        /\ \A a, b \in DOMAIN conn.result :
               a # b => conn.result[a].url # conn.result[b].url
        /\ Len(conn.result) <= 10
        /\ Len(conn.result) = IF Cardinality(FirstOccurrences) < 10
                              THEN Cardinality(FirstOccurrences) ELSE 10
        /\ \A n \in DOMAIN conn.result : conn.result[n] = Collected[NthFirst(n)]

C29_Witness ==
    /\ ConnReturned(REDDIT)
    /\ conn.path = "live"
    /\ Cardinality(FirstOccurrences) > 10
    /\ Cardinality(FirstOccurrences) < Len(Collected)
    /\ conn.backup # <<>>
    /\ Len(conn.result) = 10

(***************************************************************************)
(* Failures around the synthesized result and the per-source fetches.      *)
(***************************************************************************)

\* C31: when process_query's write of the synthesized result to the
\* query-result cache fails, it still returns the COMPLETED response with the
\* whole result, unchanged, and nothing is stored.
C31_CacheWriteFailureIgnored ==
    [][\A r \in Reqs :
          (pc[r] = "engine_cache" /\ pc'[r] # "engine_cache" /\ ~StoreReachable) =>
              /\ response'[r] = response[r]
              /\ response'[r].status = COMPLETED
              /\ response'[r].result.answer = Synthesis(r).answer
              /\ response'[r].result.citations = Synthesis(r).citations
              /\ response'[r].result.graph_path = Synthesis(r).graph_path
              /\ cache' = cache]_vars

C31_Witness ==
    /\ ~clientOK
    /\ pc[1] = "endpoint_cache"
    /\ response[1].status = COMPLETED
    /\ Len(response[1].result.citations) = 3
    /\ cache = EmptyCache

\* The fetches of a request whose connector call raised, and the sources
\* they were for.
FailedFetches(r) == {i \in DOMAIN tasks[r] : tasks[r][i].error}
FailedSources(r) == {tasks[r][i].source : i \in FailedFetches(r)}

\* What a failed fetch leaves behind: a response for its source with no
\* record, no citation of that source and no label for it.
FailureContained(r) ==
    /\ \A i \in FailedFetches(r) :
           /\ tasks[r][i].data = <<>>
           /\ FanInResults(tasks[r]).external_data[i].source = tasks[r][i].source
           /\ FanInResults(tasks[r]).external_data[i].data = <<>>
    /\ response[r].status = COMPLETED
    /\ \A k \in DOMAIN response[r].result.citations :
           response[r].result.citations[k].source \notin FailedSources(r)
    /\ \A source \in FailedSources(r) :
           PathLabel(source) \notin Range(response[r].result.graph_path)
    /\ \A i \in DOMAIN tasks[r] \ FailedFetches(r) :
           \A k \in DOMAIN tasks[r][i].data :
               k <= CitationCap(tasks[r][i].source) =>
                   Citation(tasks[r][i].source, tasks[r][i].data[k])
                       \in Range(response[r].result.citations)

StatusOf(r) == IF response[r] = NoResponse THEN None ELSE response[r].status

\* C33 as stated: a status changes only from PENDING to PROCESSING and from
\* PROCESSING to COMPLETED or FAILED.
C33_StatusLifecycle ==
    [][\A r \in Reqs :
          StatusOf(r)' # StatusOf(r) =>
              <<StatusOf(r), StatusOf(r)'>> \in
                  {<<None, PENDING>>, <<PENDING, PROCESSING>>, <<PROCESSING, COMPLETED>>,
                   <<PROCESSING, FAILED>>}]_vars

\* C33: a query gets its status once, COMPLETED or FAILED, with the response
\* process_query builds; from then on neither the status nor the response
\* changes.
C33_TerminalStatus ==
    [][\A r \in Reqs :
          /\ StatusOf(r)' # StatusOf(r) =>
                 StatusOf(r) = None /\ StatusOf(r)' \in {COMPLETED, FAILED}
          /\ response[r] # NoResponse => response'[r] = response[r]]_vars

C33_Witness ==
    /\ pc[1] = "done"
    /\ StatusOf(1) = FAILED
    /\ now = MaxTime
    /\ ~storeUp

(***************************************************************************)
(* Retrieval by id: get_query (main.py) and GraphRAGEngine.get_query_result.*)
(* A query id is str(uuid.uuid4()); a fingerprint is an md5 hexdigest.  The *)
(* two never coincide.                                                     *)
(***************************************************************************)
QueryIdStr(query_id) == "uuid-" \o ToString(query_id)

\* get_query_result: the entry under query_result:{query_id}, parsed, or
\* None.
get_query_result(query_id) ==
    IF redis_get_hit("query_result:" \o QueryIdStr(query_id))
    THEN parse_response(cache["query_result:" \o QueryIdStr(query_id)].value)
    ELSE NoResponse

\* get_query: 404 when get_query_result returned None.
GetQuery(query_id) ==
    /\ retrieval' = [st |-> "returned", query_id |-> query_id,
                     result |-> get_query_result(query_id),
                     reply |-> IF get_query_result(query_id) = NoResponse
                               THEN "http_404" ELSE "response"]
    /\ UNCHANGED <<clientOK, storeUp, now, cache, pipelineVars, call, prev_call, snip,
                   extraction, conn, reasoning, limiter>>

\* Two identical submissions one after the other over a cold store, and
\* retrievals of the ids drawn so far and of an id never drawn.
RetrievalNext ==
    \/ Pipeline(AfterPrevDone, {QRetail}, {<<REDDIT>>}, HopChoices, SeqOutcomes)
    \/ \E query_id \in 1..MaxReqs + 1 : GetQuery(query_id)
    \/ Tick
    \/ Outage

RetrievalSpec == ColdInit /\ [][RetrievalNext]_vars

\* The responses the query-result cache holds.
IsQueryResultKey(k) == StrPrefix(k, 13) = "query_result:"
CachedResponses ==
    {parse_response(cache[k].value) : k \in {j \in DOMAIN cache : IsQueryResultKey(j)}}

\* C34: a retrieval by the id of a response a submission returned, made
\* while the store answers and the cached response has not expired, returns
\* that response; a retrieval returns nothing only if no unexpired response
\* carries the id.
C34_RetrievalById ==
    [][retrieval' # retrieval =>
          LET q == retrieval'.query_id
              live == StoreReachable /\ \E c \in CachedResponses : c.query_id = q
          IN /\ (live /\ \E r \in Reqs : reply[r].kind = "response" /\ reply[r].body.query_id = q)
                    => (retrieval'.result # NoResponse /\ retrieval'.result.query_id = q)
             /\ (StoreReachable /\ retrieval'.result = NoResponse) => ~live]_vars

(***************************************************************************)
(* RateLimitMiddleware.check_rate_limit (middleware/rate_limit.py): a      *)
(* sorted set per (client key, endpoint) in the store, one member per      *)
(* admitted request, scored by the second it arrived in.  The checks of    *)
(* several requests interleave at every store operation.                   *)
(***************************************************************************)
MaxRateReqs == 3                \* checks in one behaviour
MaxSeconds == 1                 \* seconds the clock advances

RateReqs == 1..MaxRateReqs
default_rate_limit == "100/minute"
RateLimits == {"1/second", "2/minute", "2 per minute", None}
ClientKeys == {"ip:10.0.0.1"}
Endpoints == {"query"}
endpoint_key_of(key, endpoint) == "rate_limit:" \o key \o ":" \o endpoint
EndpointKeys == {endpoint_key_of(key, endpoint) : key \in ClientKeys, endpoint \in Endpoints}

\* rate_limit.split('/') and int(limit); a string that does not split in
\* two or whose first part is no numeral makes the parse fall back.
SlashPositions(s) == {i \in 1..Len(s) : SubSeq(s, i, i) = "/"}
IsNumeral(s) == \E n \in 0..100 : ToString(n) = s
IntOf(s) == CHOOSE n \in 0..100 : ToString(n) = s

_parse_rate_limit(rate_limit) ==
    IF Cardinality(SlashPositions(rate_limit)) # 1
    THEN [limit |-> 100, window |-> 60]
    ELSE LET i == CHOOSE j \in SlashPositions(rate_limit) : TRUE
             limit == SubSeq(rate_limit, 1, i - 1)
             period == SubSeq(rate_limit, i + 1, Len(rate_limit))
         IN IF ~IsNumeral(limit)
            THEN [limit |-> 100, window |-> 60]
            ELSE [limit |-> IntOf(limit),
                  window |-> IF StrPrefix(period, 6) = "second" THEN 1
                             ELSE IF StrPrefix(period, 6) = "minute" THEN 60
                             ELSE IF StrPrefix(period, 4) = "hour" THEN 3600
                             ELSE IF StrPrefix(period, 3) = "day" THEN 86400
                             ELSE 60]

\* rate_limit or self.default_rate_limit, parsed.
window_size == _parse_rate_limit(IF limiter.rate \in {None, ""} THEN default_rate_limit
                                 ELSE limiter.rate)

\* The store's sorted-set commands.
zremrangebyscore(zset, lo, hi) == {e \in zset : ~(lo <= e.score /\ e.score <= hi)}
zcard(zset) == Cardinality(zset)
zadd(zset, member, score) ==
    {e \in zset : e.member # member} \cup {[member |-> member, score |-> score]}

IdleCheck == [st |-> "idle", endpoint_key |-> "", current_time |-> 0, current_count |-> 0,
              recorded |-> FALSE, path |-> "", failed_at |-> "", error |-> 0]

LimiterInit ==
    /\ clientOK \in BOOLEAN
    /\ storeUp = TRUE
    /\ now = 0
    /\ cache = EmptyCache
    /\ active_queries = {}
    /\ nextId = 1
    /\ pc = [r \in Reqs |-> "idle"]
    /\ input = [r \in Reqs |-> NoInput]
    /\ context = [r \in Reqs |-> NoContext]
    /\ tasks = [r \in Reqs |-> <<>>]
    /\ response = [r \in Reqs |-> NoResponse]
    /\ reply = [r \in Reqs |-> NoReply]
    /\ popped = [r \in Reqs |-> 0]
    /\ call = NoCall
    /\ prev_call = NoCall
    /\ snip = NoSnippet
    /\ extraction = NoExtraction
    /\ reasoning = NoReasoning
    /\ conn = NoConn
    /\ retrieval = NoRetrieval
    /\ limiter \in {[rate |-> rate, time |-> 0,
                      zset |-> [k \in EndpointKeys |-> {}],
                      expiry |-> [k \in EndpointKeys |-> -1],
                      req |-> [i \in RateReqs |-> IdleCheck]] : rate \in RateLimits}

LimiterUnchanged ==
    UNCHANGED <<clientOK, storeUp, now, cache, pipelineVars, call, prev_call, snip,
                extraction, conn, reasoning, retrieval>>

\* except Exception: return True.
fail_open_raising(req) ==
    [req EXCEPT !.st = "raised", !.path = "failed_open", !.failed_at = req.st, !.error = 500]
fail_open(req) == [req EXCEPT !.st = "returned", !.path = "failed_open", !.failed_at = req.st]

\* Lines 48-58: without a client the check is off; otherwise the key, the
\* second and the parsed limit are fixed for the rest of the check.  Checks
\* begin in order, and a check overlaps with the one before it and the one
\* after it only.
BeginCheck(i, key, endpoint) ==
    /\ limiter.req[i].st = "idle"
    /\ \A j \in 1..(i - 1) : limiter.req[j].st # "idle"
    /\ \A j \in 1..(i - 2) : limiter.req[j].st \in {"returned", "raised"}
    /\ limiter' = [limiter EXCEPT !.req[i] =
           IF ~clientOK
           THEN [IdleCheck EXCEPT !.st = "returned", !.path = "disabled"]
           ELSE [IdleCheck EXCEPT !.st = "remove",
                                  !.endpoint_key = endpoint_key_of(key, endpoint),
                                  !.current_time = limiter.time]]
    /\ LimiterUnchanged

\* Lines 61-63: entries scored at or before current_time - window go.
RemoveOld(i) ==
    LET req == limiter.req[i]
        k == req.endpoint_key
    IN /\ req.st = "remove"
       /\ limiter' = IF ~storeUp
                      THEN [limiter EXCEPT !.req[i] = fail_open(req)]
                      ELSE [limiter EXCEPT
                              !.zset[k] = zremrangebyscore(limiter.zset[k], 0,
                                              req.current_time - window_size.window),
                              !.req[i] = [req EXCEPT !.st = "count"]]
       /\ LimiterUnchanged

\* Lines 66-79: the count, and the 429 when it has reached the limit.
CountCurrent(i) ==
    LET req == limiter.req[i]
        current_count == zcard(limiter.zset[req.endpoint_key])
    IN /\ req.st = "count"
       /\ limiter' = [limiter EXCEPT !.req[i] =
              IF ~storeUp THEN fail_open(req)
              ELSE IF current_count >= window_size.limit
              THEN [req EXCEPT !.st = "raised", !.path = "rejected", !.error = 429,
                               !.current_count = current_count]
              ELSE [req EXCEPT !.st = "add", !.current_count = current_count]]
       /\ LimiterUnchanged

\* Lines 82-84: the request is entered under the member str(current_time).
AddCurrent(i) ==
    LET req == limiter.req[i]
        k == req.endpoint_key
    IN /\ req.st = "add"
       /\ limiter' = IF ~storeUp
                      THEN [limiter EXCEPT !.req[i] = fail_open(req)]
                      ELSE [limiter EXCEPT
                              !.zset[k] = zadd(limiter.zset[k], ToString(req.current_time),
                                               req.current_time),
                              !.req[i] = [req EXCEPT !.st = "expire", !.recorded = TRUE]]
       /\ LimiterUnchanged

\* Lines 85-92: the key's time to live is set anew and the check returns
\* True.
ExpireKey(i) ==
    LET req == limiter.req[i]
        k == req.endpoint_key
    IN /\ req.st = "expire"
       /\ limiter' = IF ~storeUp
                      THEN [limiter EXCEPT !.req[i] = fail_open(req)]
                      ELSE [limiter EXCEPT
                              !.expiry[k] = limiter.time + window_size.window,
                              !.req[i] = [req EXCEPT !.st = "returned", !.path = "checked"]]
       /\ LimiterUnchanged

\* A second passes; keys whose time to live has run out are gone.
Second ==
    /\ limiter.time < MaxSeconds
    /\ limiter' = [limiter EXCEPT
           !.time = limiter.time + 1,
           !.zset = [k \in EndpointKeys |->
                       IF limiter.expiry[k] = limiter.time + 1 THEN {} ELSE limiter.zset[k]],
           !.expiry = [k \in EndpointKeys |->
                       IF limiter.expiry[k] = limiter.time + 1 THEN -1 ELSE limiter.expiry[k]]]
    /\ LimiterUnchanged

LimiterNext ==
    \/ \E i \in RateReqs, key \in ClientKeys, endpoint \in Endpoints : BeginCheck(i, key, endpoint)
    \/ \E i \in RateReqs : RemoveOld(i)
    \/ \E i \in RateReqs : CountCurrent(i)
    \/ \E i \in RateReqs : AddCurrent(i)
    \/ \E i \in RateReqs : ExpireKey(i)
    \/ Second
    \/ Outage

LimiterSpec == LimiterInit /\ [][LimiterNext]_vars

\* The checks of endpoint key k that ran to the end with every store
\* operation answering and were admitted with a current_time in the window
\* of `window` seconds that ends at second t.
AdmittedIn(k, t) ==
    {i \in RateReqs : /\ limiter.req[i].st = "returned"
                      /\ limiter.req[i].path = "checked"
                      /\ limiter.req[i].endpoint_key = k
                      /\ t - window_size.window < limiter.req[i].current_time
                      /\ limiter.req[i].current_time <= t}

\* C35: for each endpoint key, no window of `window` seconds holds more
\* than `limit` admitted requests, whether the requests arrive in the same
\* second or their checks interleave; a request is turned away only with a
\* 429.
C35_SlidingWindow ==
    /\ \A k \in EndpointKeys, t \in 0..MaxSeconds :
           Cardinality(AdmittedIn(k, t)) <= window_size.limit
    /\ \A i \in RateReqs : limiter.req[i].st = "raised" => limiter.req[i].error = 429

\* C36 as stated: a check without a store connection, or one in which a
\* store operation raised, returned True and added no entry; the only error
\* a check raises is the 429; a rejected check added no entry.
C36_FailOpenRecordsNothing ==
    \A i \in RateReqs :
        LET req == limiter.req[i]
        IN /\ req.path \in {"disabled", "failed_open"} => req.st = "returned" /\ ~req.recorded
           /\ req.st = "raised" => req.error = 429 /\ req.path = "rejected"
           /\ req.path = "rejected" => ~req.recorded

\* C36, amended: as above, except that a check whose expire raised had
\* already added its entry; every other failed or disabled check added none.
C36_FailOpen ==
    \A i \in RateReqs :
        LET req == limiter.req[i]
        IN /\ req.path = "disabled" => req.st = "returned" /\ ~req.recorded
           /\ req.path = "failed_open" =>
                 req.st = "returned" /\ (req.recorded <=> req.failed_at = "expire")
           /\ req.st = "raised" => req.error = 429 /\ req.path = "rejected"
           /\ req.path = "rejected" => ~req.recorded

C36_Witness ==
    \E i, j \in RateReqs :
        /\ limiter.req[i].path = "failed_open" /\ limiter.req[i].failed_at = "add"
        /\ limiter.zset[limiter.req[i].endpoint_key] # {}
        /\ limiter.req[j].path = "rejected"

\* C37: no entry of the query-result cache holds a FAILED response, and no
\* submission is answered with a FAILED response out of the cache.
C37_OnlyCompletedCached ==
    /\ \A c \in CachedResponses : c.status = COMPLETED
    /\ \A r \in Reqs :
           (pc[r] = "done" /\ reply[r].kind = "response" /\ response[r] = NoResponse)
              => reply[r].body.status # FAILED

(***************************************************************************)
(* RefetchSpec: two discussion queries one after the other over a cold     *)
(* store that fails and recovers; the connector finds nothing or one       *)
(* record, so the raw cache comes to hold an empty list.                   *)
(***************************************************************************)
RefetchOutcomes == {Returned(<<>>), Returned(<<RedditRec1>>)}

RefetchNext ==
    \/ Pipeline(AfterPrevDone, {QRetail}, {<<REDDIT>>}, HopChoices, RefetchOutcomes)
    \/ Tick
    \/ Outage

RefetchSpec == ColdInit /\ [][RefetchNext]_vars

\* The raw-cache entry of a fetch is there and readable.
RawHeld(t) == redis_get_hit(RawKey(t))

\* C38: a fetch response marked cached carries a non-empty record list, the
\* one the raw cache held when the fetch read it; a fetch that reads an
\* empty cached list goes on to call the connector, and its write puts the
\* connector's records in the entry's place.
C38_CachedMeansNonEmpty ==
    /\ [](\A r \in Reqs : \A i \in DOMAIN tasks[r] :
             tasks[r][i].cached => tasks[r][i].data # <<>>)
    /\ [][\A r \in Reqs : \A i \in DOMAIN tasks[r] \cap DOMAIN tasks'[r] :
             LET t == tasks[r][i]
                 u == tasks'[r][i]
             IN /\ (t.st = "read" /\ u.cached) =>
                       RawHeld(t) /\ u.data = cache[RawKey(t)].value
                /\ (t.st = "read" /\ u.st # "read" /\ RawHeld(t)
                      /\ cache[RawKey(t)].value = <<>>) => (u.st = "call" /\ ~u.cached)
                /\ (t.st = "write" /\ u.st = "done" /\ StoreReachable) =>
                       cache'[RawKey(t)].value = t.data]_vars

C38_Witness ==
    \E r \in Reqs : \E i \in DOMAIN tasks[r] :
        /\ tasks[r][i].st = "write"
        /\ tasks[r][i].data # <<>>
        /\ RawHeld(tasks[r][i])
        /\ cache[RawKey(tasks[r][i])].value = <<>>

\* C39: when a unit of the content scores, the snippet is the join of a
\* non-empty beginning of the ranking of the scoring units, cut to
\* max_length, hence begins with the first max_length characters of the
\* highest-scoring unit; the beginning of the raw content is returned only
\* when no unit scores.
C39_BuiltFromScoringUnits ==
    (SnippetReturned /\ HasContent) =>
        LET ranked == Ranked
        IN ranked # <<>> =>
              /\ \E k \in DOMAIN ranked : snip.snippet = Cut(Join(SubSeq(ranked, 1, k), ". "))
              /\ LET top == StrPrefix(ranked[1], snip.max_length)
                 IN StrPrefix(snip.snippet, Len(top)) = top

====
